---- MODULE Spec2Model ----
(***************************************************************************)
(* The triangle-to-triangle image resampling of the HTML5 canvas image     *)
(* distortion demo: the vector helpers, cartesian_to_barycentric,          *)
(* barycentric_to_cartesian and map_triangle.                              *)
(*                                                                         *)
(* Every arithmetic operator of the JavaScript source works on Numbers,    *)
(* that is on IEEE 754 binary64 values with round-to-nearest-even.  The    *)
(* model keeps that arithmetic: a Number is a record                       *)
(*     [k |-> "fin", s |-> sign, m |-> magnitude, e |-> exponent]          *)
(* of value s * m * 2^e (m an odd natural number of at most 53 bits, held  *)
(* as a little-endian sequence of 15-bit limbs, <<>> for zero), or         *)
(* [k |-> "inf", s |-> sign], or [k |-> "nan"].  The sign of a zero is not *)
(* kept (no operation of the demo divides by a computed zero other than    *)
(* the +0 of x - x), and the exponent range is not bounded (no value of    *)
(* the demo comes near the overflow or subnormal range).                   *)
(***************************************************************************)
EXTENDS Integers, Sequences, FiniteSets, TLC

(***************************************************************************)
(* Natural numbers of any size: little-endian limbs, no high zero limb.    *)
(***************************************************************************)
LimbBits == 15

LIMB == 2^LimbBits

Abs(n) == IF n < 0 THEN -n ELSE n

Limb(a, i) == IF i <= Len(a) THEN a[i] ELSE 0

RECURSIVE BigTrim(_)
BigTrim(a) ==
    IF a = <<>> THEN a
    ELSE IF a[Len(a)] = 0 THEN BigTrim(SubSeq(a, 1, Len(a) - 1)) ELSE a

RECURSIVE BigFromInt(_)
BigFromInt(n) == IF n = 0 THEN <<>> ELSE <<n % LIMB>> \o BigFromInt(n \div LIMB)

RECURSIVE BigToInt(_)
BigToInt(a) == IF a = <<>> THEN 0 ELSE a[1] + LIMB * BigToInt(Tail(a))

RECURSIVE BigAddFrom(_, _, _, _)
BigAddFrom(a, b, i, c) ==
    IF i > Len(a) /\ i > Len(b)
    THEN (IF c = 0 THEN <<>> ELSE <<c>>)
    ELSE LET t == Limb(a, i) + Limb(b, i) + c
         IN  <<t % LIMB>> \o BigAddFrom(a, b, i + 1, t \div LIMB)

BigAdd(a, b) == BigTrim(BigAddFrom(a, b, 1, 0))

RECURSIVE BigSubFrom(_, _, _, _)
BigSubFrom(a, b, i, br) ==
    IF i > Len(a) THEN <<>>
    ELSE LET d == Limb(a, i) - Limb(b, i) - br
         IN  IF d < 0 THEN <<d + LIMB>> \o BigSubFrom(a, b, i + 1, 1)
                      ELSE <<d>> \o BigSubFrom(a, b, i + 1, 0)

\* a - b for a >= b
BigSub(a, b) == BigTrim(BigSubFrom(a, b, 1, 0))

RECURSIVE BigCmpFrom(_, _, _)
BigCmpFrom(a, b, i) ==
    IF i = 0 THEN 0
    ELSE IF a[i] > b[i] THEN 1
    ELSE IF a[i] < b[i] THEN -1
    ELSE BigCmpFrom(a, b, i - 1)

\* -1, 0 or 1 as a < b, a = b or a > b
BigCmp(a, b) ==
    IF Len(a) > Len(b) THEN 1
    ELSE IF Len(a) < Len(b) THEN -1
    ELSE BigCmpFrom(a, b, Len(a))

RECURSIVE BigMulLimb(_, _, _, _)
BigMulLimb(a, k, i, c) ==
    IF i > Len(a) THEN BigFromInt(c)
    ELSE LET p == a[i] * k + c
         IN  <<p % LIMB>> \o BigMulLimb(a, k, i + 1, p \div LIMB)

RECURSIVE BigMulFrom(_, _, _)
BigMulFrom(a, b, j) ==
    IF j > Len(b) THEN <<>>
    ELSE BigAddFrom(BigMulLimb(a, b[j], 1, 0), <<0>> \o BigMulFrom(a, b, j + 1), 1, 0)

BigMul(a, b) == BigTrim(BigMulFrom(a, b, 1))

\* a * 2^n
BigShl(a, n) ==
    IF a = <<>> THEN a
    ELSE [i \in 1..(n \div LimbBits) |-> 0] \o BigMulLimb(a, 2^(n % LimbBits), 1, 0)

\* floor(a / 2^n)
BigShr(a, n) ==
    LET q == n \div LimbBits
        r == n % LimbBits
        b == IF q >= Len(a) THEN <<>> ELSE SubSeq(a, q + 1, Len(a))
    IN  BigTrim([i \in 1..Len(b) |->
                    (b[i] \div 2^r) + (Limb(b, i + 1) % 2^r) * 2^(LimbBits - r)])

\* bit i of a, bit 0 the lowest
BigBit(a, i) == (Limb(a, (i \div LimbBits) + 1) \div 2^(i % LimbBits)) % 2

\* a mod 2^n = 0
BigLowZero(a, n) ==
    /\ \A i \in 1..(n \div LimbBits) : Limb(a, i) = 0
    /\ Limb(a, (n \div LimbBits) + 1) % 2^(n % LimbBits) = 0

RECURSIVE IntBitLen(_)
IntBitLen(n) == IF n = 0 THEN 0 ELSE 1 + IntBitLen(n \div 2)

BigBitLen(a) ==
    IF a = <<>> THEN 0 ELSE LimbBits * (Len(a) - 1) + IntBitLen(a[Len(a)])

RECURSIVE IntTrailingZeros(_)
IntTrailingZeros(n) == IF n % 2 = 1 THEN 0 ELSE 1 + IntTrailingZeros(n \div 2)

RECURSIVE BigTrailingZeros(_)
\* for a # 0
BigTrailingZeros(a) ==
    IF a[1] = 0 THEN LimbBits + BigTrailingZeros(Tail(a))
    ELSE IntTrailingZeros(a[1])

RECURSIVE DivLimb(_, _, _, _, _)
\* long division, bit i down to bit 0 of limb x: <<quotient limb, remainder>>
DivLimb(r, x, d, i, q) ==
    IF i < 0 THEN <<q, r>>
    ELSE LET r2 == 2 * r + ((x \div 2^i) % 2)
         IN  IF r2 >= d THEN DivLimb(r2 - d, x, d, i - 1, 2 * q + 1)
                        ELSE DivLimb(r2, x, d, i - 1, 2 * q)

RECURSIVE BigDivFrom(_, _, _, _)
BigDivFrom(a, d, i, r) ==
    IF i = 0 THEN [q |-> <<>>, r |-> r]
    ELSE LET st == IF d < LIMB
                   THEN <<(r * LIMB + a[i]) \div d, (r * LIMB + a[i]) % d>>
                   ELSE DivLimb(r, a[i], d, LimbBits - 1, 0)
             rest == BigDivFrom(a, d, i - 1, st[2])
         IN  [q |-> rest.q \o <<st[1]>>, r |-> rest.r]

\* quotient and remainder of a by the integer d, 0 < d < 2^30
BigDivInt(a, d) ==
    LET res == BigDivFrom(a, d, Len(a), 0)
    IN  [q |-> BigTrim(res.q), r |-> res.r]

(***************************************************************************)
(* Numbers.                                                                *)
(***************************************************************************)
Precision == 53

NaN == [k |-> "nan"]

Inf(s) == [k |-> "inf", s |-> s]

Zero == [k |-> "fin", s |-> 1, m |-> <<>>, e |-> 0]

\* the Number s * m * 2^e, m of at most Precision bits
Fin(s, m, e) ==
    IF m = <<>> THEN Zero
    ELSE LET z == BigTrailingZeros(m)
         IN  [k |-> "fin", s |-> s, m |-> BigShr(m, z), e |-> e + z]

\* s * m * 2^e (and a little more when sticky) rounded to nearest, ties to even
Round(s, m, e, sticky) ==
    LET len == BigBitLen(m)
        sh == len - Precision
        q == BigShr(m, sh)
        half == BigBit(m, sh - 1) = 1
        exact == BigLowZero(m, sh - 1) /\ ~sticky
        up == half /\ (~exact \/ BigBit(q, 0) = 1)
    IN  IF len <= Precision THEN Fin(s, m, e)
        ELSE Fin(s, IF up THEN BigAdd(q, <<1>>) ELSE q, e + sh)

FromInt(n) == Fin(IF n < 0 THEN -1 ELSE 1, BigFromInt(Abs(n)), 0)

One == FromInt(1)

IsFin(x) == x.k = "fin"

IsZero(x) == x.k = "fin" /\ x.m = <<>>

Sgn(x) == IF IsZero(x) THEN 0 ELSE x.s

\* the Number x * y
FMul(x, y) ==
    IF x.k = "nan" \/ y.k = "nan" THEN NaN
    ELSE IF x.k = "inf" \/ y.k = "inf"
         THEN (IF IsZero(x) \/ IsZero(y) THEN NaN ELSE Inf(x.s * y.s))
    ELSE Round(x.s * y.s, BigMul(x.m, y.m), x.e + y.e, FALSE)

\* the Number x + y
FAdd(x, y) ==
    IF x.k = "nan" \/ y.k = "nan" THEN NaN
    ELSE IF x.k = "inf"
         THEN (IF y.k = "inf" /\ y.s # x.s THEN NaN ELSE x)
    ELSE IF y.k = "inf" THEN y
    ELSE IF IsZero(x) THEN y
    ELSE IF IsZero(y) THEN x
    ELSE LET e == IF x.e < y.e THEN x.e ELSE y.e
             mx == BigShl(x.m, x.e - e)
             my == BigShl(y.m, y.e - e)
             c == BigCmp(mx, my)
         IN  IF x.s = y.s THEN Round(x.s, BigAdd(mx, my), e, FALSE)
             ELSE IF c = 0 THEN Zero
             ELSE IF c > 0 THEN Round(x.s, BigSub(mx, my), e, FALSE)
             ELSE Round(y.s, BigSub(my, mx), e, FALSE)

\* the Number x / y, for a divisor whose odd part is below 2^30
FDiv(x, y) ==
    IF x.k = "nan" \/ y.k = "nan" THEN NaN
    ELSE IF x.k = "inf" THEN (IF y.k = "inf" THEN NaN ELSE Inf(x.s * y.s))
    ELSE IF y.k = "inf" THEN Zero
    ELSE IF IsZero(y) THEN (IF IsZero(x) THEN NaN ELSE Inf(x.s))
    ELSE IF IsZero(x) THEN Zero
    ELSE LET d == BigToInt(y.m)
             sh == Precision + 3 + IntBitLen(d)
             qr == BigDivInt(BigShl(x.m, sh), d)
         IN  Round(x.s * y.s, qr.q, x.e - y.e - sh, qr.r # 0)

\* -1, 0, 1 as x < y, x = y, x > y, for finite or infinite x, y
FCmp(x, y) ==
    IF x.k = "inf" \/ y.k = "inf"
    THEN LET a == IF x.k = "inf" THEN 2 * x.s ELSE Sgn(x)
             b == IF y.k = "inf" THEN 2 * y.s ELSE Sgn(y)
         IN  IF a < b THEN -1 ELSE IF a > b THEN 1 ELSE 0
    ELSE IF Sgn(x) # Sgn(y) THEN (IF Sgn(x) < Sgn(y) THEN -1 ELSE 1)
    ELSE IF Sgn(x) = 0 THEN 0
    ELSE LET e == IF x.e < y.e THEN x.e ELSE y.e
         IN  x.s * BigCmp(BigShl(x.m, x.e - e), BigShl(y.m, y.e - e))

\* x >= y and x <= y: false when either is NaN
FGe(x, y) == x.k # "nan" /\ y.k # "nan" /\ FCmp(x, y) >= 0

FLe(x, y) == x.k # "nan" /\ y.k # "nan" /\ FCmp(x, y) <= 0

\* Math.floor of a finite Number, as an integer
Floor(x) ==
    IF x.e >= 0 THEN x.s * BigToInt(BigShl(x.m, x.e))
    ELSE LET q == BigToInt(BigShr(x.m, -x.e))
         IN  IF x.s > 0 THEN q ELSE -(q + 1)

(***************************************************************************)
(* Vector math.  A point or vector is a pair <<x, y>>; a triangle is the   *)
(* triple <<A, B, C>> of its corners (triangle[0..2] of the source are     *)
(* triangle[1..3] here).  sub and dot are only ever applied to pixel and   *)
(* corner coordinates, which are integers: binary64 is exact on them (no   *)
(* value comes near 2^53), so they stay integers here.  mul and add work   *)
(* on the Numbers that the division by the denominator produces.           *)
(***************************************************************************)
sub(v0, v1) == <<v0[1] - v1[1], v0[2] - v1[2]>>

dot(v0, v1) == v0[1] * v1[1] + v0[2] * v1[2]

mul(k, v) == <<FMul(k, FromInt(v[1])), FMul(k, FromInt(v[2]))>>

add(v0, v1) == <<FAdd(v0[1], v1[1]), FAdd(v0[2], v1[2])>>

\* the integer point v as a vector of Numbers
num2(v) == <<FromInt(v[1]), FromInt(v[2])>>

\* the dot products of cartesian_to_barycentric and what they are combined to:
\* u = nu * (1 / denom), v = nv * (1 / denom)
barycentric_terms(triangle, xy) ==
    LET a == triangle[1]
        b == triangle[2]
        c == triangle[3]
        v0 == sub(c, a)
        v1 == sub(b, a)
        v2 == sub(xy, a)
        dot00 == dot(v0, v0)
        dot01 == dot(v0, v1)
        dot02 == dot(v0, v2)
        dot11 == dot(v1, v1)
        dot12 == dot(v1, v2)
    IN  [denom |-> dot00 * dot11 - dot01 * dot01,
         nu |-> dot11 * dot02 - dot01 * dot12,
         nv |-> dot00 * dot12 - dot01 * dot02]

cartesian_to_barycentric(triangle, xy) ==
    LET t == barycentric_terms(triangle, xy)
        invDenom == FDiv(One, FromInt(t.denom))
        u == FMul(FromInt(t.nu), invDenom)
        v == FMul(FromInt(t.nv), invDenom)
    IN  <<u, v>>

\* barycentric_to_cartesian with the two weights exchanged (u on B - A, v on C - A)
barycentric_to_cartesian_swapped(triangle, uv) ==
    LET a == triangle[1]
        ba == sub(triangle[2], a)
        ca == sub(triangle[3], a)
    IN  add(num2(a), add(mul(uv[1], ba), mul(uv[2], ca)))

barycentric_to_cartesian(triangle, uv) ==
    LET a == triangle[1]
        ba == sub(triangle[2], a)
        ca == sub(triangle[3], a)
    IN  add(num2(a), add(mul(uv[1], ca), mul(uv[2], ba)))

\* barycentric_to_cartesian over the rationals, for u = nu / denom and
\* v = nv / denom: denom times the point
barycentric_to_cartesian_exact(triangle, nu, nv, denom) ==
    LET a == triangle[1]
        ba == sub(triangle[2], a)
        ca == sub(triangle[3], a)
    IN  <<denom * a[1] + (nu * ca[1] + nv * ba[1]),
          denom * a[2] + (nu * ca[2] + nv * ba[2])>>

\* (uv[0] >= 0) && (uv[1] >= 0) && (uv[0] + uv[1] <= 1)
xy_in_triangle(uv) ==
    FGe(uv[1], Zero) /\ FGe(uv[2], Zero) /\ FLe(FAdd(uv[1], uv[2]), One)

(***************************************************************************)
(* The inputs of the coordinate transform.                                 *)
(***************************************************************************)
MaxCoord == 2

MaxLeg == 9

Grid(n) == (0..n) \X (0..n)

\* every ordered triple of grid points: both winding orders, and the
\* degenerate triples too
GridTriangles == {<<a, b, c>> : a \in Grid(MaxCoord), b \in Grid(MaxCoord), c \in Grid(MaxCoord)}

\* triangles of the shape of the demo's viewport triangle, A above B, C right of B
LegTriangles == {<<<<0, 0>>, <<0, h>>, <<w, h>>>> : w \in 0..MaxLeg, h \in 0..MaxLeg}

Cross(t) ==
    (t[2][1] - t[1][1]) * (t[3][2] - t[1][2]) - (t[2][2] - t[1][2]) * (t[3][1] - t[1][1])

Collinear(t) == Cross(t) = 0

NoValue == "none"

(***************************************************************************)
(* Image data.  An ImageData is [width, height, data]; data is the flat    *)
(* array of channel bytes, data[o + 1] here being data[o] of the source.   *)
(* Reading an index outside the array gives undefined, and storing         *)
(* undefined into the byte array stores 0.  A value read or to be stored   *)
(* is <<byte>>, or <<>> for undefined.                                     *)
(***************************************************************************)
PIXEL_WIDTH == 4

undefined == <<>>

load(data, o) == IF o >= 0 /\ o < Len(data) THEN <<data[o + 1]>> ELSE undefined

ToUint8(v) == IF v = undefined THEN 0 ELSE v[1]

store(data, o, v) == [data EXCEPT ![o + 1] = ToUint8(v)]

\* the copy with its assignments turned round: the source array is written
copy_pixel_reversed(dst_pixel_data, dst_pixel_start, src_pixel_data, src_start) ==
    [src |-> IF src_start >= 0 /\ src_start + 3 < Len(src_pixel_data)
             THEN [i \in 1..Len(src_pixel_data) |->
                      IF i - 1 \in src_start..(src_start + 3)
                      THEN dst_pixel_data[dst_pixel_start + i - src_start]
                      ELSE src_pixel_data[i]]
             ELSE src_pixel_data,
     dst |-> dst_pixel_data]

\* the copy as a blend: each channel becomes the mean of what the destination
\* held and the source's
copy_pixel_blend(dst_pixel_data, dst_pixel_start, src_pixel_data, src_start) ==
    [src |-> src_pixel_data,
     dst |-> [i \in 1..Len(dst_pixel_data) |->
                IF i - 1 \in dst_pixel_start..(dst_pixel_start + 3)
                THEN (dst_pixel_data[i]
                        + ToUint8(load(src_pixel_data, src_start + i - 1 - dst_pixel_start))) \div 2
                ELSE dst_pixel_data[i]]]

\* the four assignments of the branch of a pixel inside the triangle
copy_pixel(dst_pixel_data, dst_pixel_start, src_pixel_data, src_start) ==
    LET d0 == store(dst_pixel_data, dst_pixel_start, load(src_pixel_data, src_start))
        d1 == store(d0, dst_pixel_start + 1, load(src_pixel_data, src_start + 1))
        d2 == store(d1, dst_pixel_start + 2, load(src_pixel_data, src_start + 2))
        d3 == store(d2, dst_pixel_start + 3, load(src_pixel_data, src_start + 3))
    IN  [src |-> src_pixel_data, dst |-> d3]

\* the fill without its fourth assignment: alpha is left as it was
fill_pixel_rgb(dst_pixel_data, dst_pixel_start) ==
    LET d0 == store(dst_pixel_data, dst_pixel_start, <<255>>)
        d1 == store(d0, dst_pixel_start + 1, <<255>>)
    IN  store(d1, dst_pixel_start + 2, <<255>>)

\* the four assignments of the branch of a pixel outside the triangle
fill_pixel(dst_pixel_data, dst_pixel_start) ==
    LET d0 == store(dst_pixel_data, dst_pixel_start, <<255>>)
        d1 == store(d0, dst_pixel_start + 1, <<255>>)
        d2 == store(d1, dst_pixel_start + 2, <<255>>)
    IN  store(d2, dst_pixel_start + 3, <<255>>)

\* the destination offset without the row: the pixels of a column share one
pixel_start_column(x, y, width) == PIXEL_WIDTH * x

\* PIXEL_WIDTH * (x + y * width)
pixel_start(x, y, width) == PIXEL_WIDTH * (x + y * width)

\* the source offset with the two coordinates exchanged
sample_start_transposed(p, width) == PIXEL_WIDTH * (Floor(p[2]) + Floor(p[1]) * width)

\* the source offset with the coordinates rounded to the nearest integer
\* (Math.round in place of Math.floor)
sample_start_rounded(p, width) ==
    PIXEL_WIDTH * (Floor(FAdd(p[1], Fin(1, <<1>>, -1)))
                     + Floor(FAdd(p[2], Fin(1, <<1>>, -1))) * width)

\* PIXEL_WIDTH * (Math.floor(src_xy[0]) + Math.floor(src_xy[1]) * width)
sample_start(p, width) == PIXEL_WIDTH * (Floor(p[1]) + Floor(p[2]) * width)

(***************************************************************************)
(* The inputs of map_triangle.                                             *)
(***************************************************************************)
SrcWidth == 2

SrcHeight == 2

DstWidth == 3

DstHeight == 2

\* a picture whose every byte differs from its neighbours, from 0 and from 255
Picture(width, height) ==
    [width |-> width, height |-> height,
     data |-> [i \in 1..(PIXEL_WIDTH * width * height) |-> 10 + i]]

\* what the output canvas holds before a pass: some earlier drawing, every
\* byte of which differs from the fill, from the picture and from 0
Blank(width, height, byte) ==
    [width |-> width, height |-> height,
     data |-> [i \in 1..(PIXEL_WIDTH * width * height) |-> byte]]

DstFills == {128}

\* every ordered triple of pixels of the output canvas: both winding orders,
\* and the degenerate triples too
DstCorners == (0..(DstWidth - 1)) \X (0..(DstHeight - 1))

DstTriangles == {<<a, b, c>> : a \in DstCorners, b \in DstCorners, c \in DstCorners}

\* viewport-shaped source triangles: B = C (no area), inside the picture, and
\* with C up to one unit beyond its right edge; and one with B one unit beyond
\* the right edge of the top row
SrcTriangles ==
    {<<<<0, 0>>, <<0, SrcHeight - 1>>, <<w, SrcHeight - 1>>>> : w \in 0..SrcWidth}
        \cup {<<<<0, 0>>, <<SrcWidth, 0>>, <<0, SrcHeight - 1>>>>}

VARIABLES triangle, xy, uv, back, gpc

VARIABLES src_image_data, src_triangle, dst_image_data, dst_triangle,
          x, y, pc, src_xy, src_pixel_start, dst_at_call, calls, dst_after_first,
          iterations

\* passes over the destination pixels other than the code's scan: each
\* worker's position and local variables, the pixels that a pass in some other
\* order has still to visit, and how often each pixel has been written
VARIABLES workers, todo, written

\* the demo page: the corners' position observables, the input image data
\* observable, what the output canvas shows, and the event handled last
VARIABLES corners, input_image_data, canvas, event

\* reactive.js: the value of each Behavior, the callbacks bound to each
\* EventStream ("occur") and Behavior ("change") in the order of binding, the
\* variable currentB of each switcherB, what each observer under watch has
\* been called with, and the occurrences and changes made from outside
VARIABLES value, observers, currentB, notified, history

\* HMap.scala: the WrappedMap objects made so far (each its underlyingMap),
\* the one that the variable hmap refers to, and the put made last
VARIABLES objects, hmap, last

\* the Serialize type class: the type of the instance, the value v, the
\* String s that serialize made of it, what deserialize made of s, and the
\* position in deserialize(serialize(v))
VARIABLES ser_type, ser_v, ser_s, ser_result, ser_pc

gvars == <<triangle, xy, uv, back, gpc>>

pvars == <<workers, todo, written>>

svars == <<ser_type, ser_v, ser_s, ser_result, ser_pc>>

hvars == <<objects, hmap, last>>

rvars == <<value, observers, currentB, notified, history>>

dvars == <<corners, input_image_data, canvas, event>>

mvars == <<src_image_data, src_triangle, dst_image_data, dst_triangle,
           x, y, pc, src_xy, src_pixel_start, dst_at_call, calls, dst_after_first,
          iterations>>

vars == <<gvars, mvars, dvars, rvars, hvars, svars, pvars>>

\* no pass of another kind is under way
PassIdle ==
    /\ workers = NoValue
    /\ todo = NoValue
    /\ written = NoValue

\* no value is being serialized
SerializeIdle ==
    /\ ser_type = NoValue
    /\ ser_v = NoValue
    /\ ser_s = NoValue
    /\ ser_result = NoValue
    /\ ser_pc = "idle"

\* no HMap is under consideration
HMapIdle ==
    /\ objects = NoValue
    /\ hmap = 0
    /\ last = NoValue

\* no reactive network is under consideration
ReactiveIdle ==
    /\ value = NoValue
    /\ observers = NoValue
    /\ currentB = NoValue
    /\ notified = NoValue
    /\ history = NoValue

\* the demo page is not under consideration
DemoIdle ==
    /\ corners = NoValue
    /\ input_image_data = NoValue
    /\ canvas = NoValue
    /\ event = "idle"

\* no call of map_triangle is under way
MapIdle ==
    /\ src_image_data = NoValue
    /\ src_triangle = NoValue
    /\ dst_image_data = NoValue
    /\ dst_triangle = NoValue
    /\ x = 0
    /\ y = 0
    /\ pc = "idle"
    /\ src_xy = NoValue
    /\ src_pixel_start = NoValue
    /\ dst_at_call = NoValue
    /\ calls = 0
    /\ dst_after_first = NoValue
    /\ iterations = 0

GeomIdle ==
    /\ triangle = NoValue
    /\ xy = NoValue
    /\ uv = NoValue
    /\ back = NoValue
    /\ gpc = "idle"

(***************************************************************************)
(* The coordinate transform on its own.                                    *)
(***************************************************************************)
InitGeom ==
    /\ \/ triangle \in GridTriangles /\ xy \in Grid(MaxCoord)
       \/ triangle \in LegTriangles /\ xy \in Grid(MaxLeg)
    /\ uv = NoValue
    /\ back = NoValue
    /\ gpc = "call"
    /\ MapIdle
    /\ DemoIdle
    /\ ReactiveIdle
    /\ HMapIdle
    /\ SerializeIdle
    /\ PassIdle

ToBarycentric ==
    /\ gpc = "call"
    /\ uv' = cartesian_to_barycentric(triangle, xy)
    /\ gpc' = "bary"
    /\ UNCHANGED <<triangle, xy, back, mvars, dvars, rvars, hvars, svars, pvars>>

ToCartesian ==
    /\ gpc = "bary"
    /\ back' = barycentric_to_cartesian(triangle, uv)
    /\ gpc' = "cart"
    /\ UNCHANGED <<triangle, xy, uv, mvars, dvars, rvars, hvars, svars, pvars>>

NextGeom == ToBarycentric \/ ToCartesian

SpecGeom == InitGeom /\ [][NextGeom]_vars

(***************************************************************************)
(* map_triangle(src_image_data, src_triangle, dst_image_data,              *)
(* dst_triangle): the state at the call, then one step per pixel of the    *)
(* double loop (x outer, y inner).                                         *)
(***************************************************************************)
\* the loop control: where the loops stand once they reach a body or end
\* the loops with the outer one a column short (x < width - 1)
loop_at_short(nx, ny, width, height) ==
    IF nx >= width - 1 THEN [x |-> nx, y |-> ny, pc |-> "done"]
    ELSE IF ny < height THEN [x |-> nx, y |-> ny, pc |-> "body"]
    ELSE IF nx + 1 < width - 1 /\ height > 0 THEN [x |-> nx + 1, y |-> 0, pc |-> "body"]
    ELSE [x |-> width - 1, y |-> ny, pc |-> "done"]

loop_at(nx, ny, width, height) ==
    IF nx >= width THEN [x |-> nx, y |-> ny, pc |-> "done"]
    ELSE IF ny < height THEN [x |-> nx, y |-> ny, pc |-> "body"]
    ELSE IF nx + 1 < width /\ height > 0 THEN [x |-> nx + 1, y |-> 0, pc |-> "body"]
    ELSE [x |-> width, y |-> ny, pc |-> "done"]

InitMap ==
    /\ src_image_data = Picture(SrcWidth, SrcHeight)
    /\ src_triangle \in SrcTriangles
    /\ \E f \in DstFills : dst_image_data = Blank(DstWidth, DstHeight, f)
    /\ dst_triangle \in DstTriangles
    /\ dst_at_call = dst_image_data.data
    /\ x = loop_at(0, 0, DstWidth, DstHeight).x
    /\ y = loop_at(0, 0, DstWidth, DstHeight).y
    /\ pc = loop_at(0, 0, DstWidth, DstHeight).pc
    /\ src_xy = NoValue
    /\ src_pixel_start = NoValue
    /\ calls = 1
    /\ dst_after_first = NoValue
    /\ iterations = 0
    /\ GeomIdle
    /\ DemoIdle
    /\ ReactiveIdle
    /\ HMapIdle
    /\ SerializeIdle
    /\ PassIdle

\* the body of the loops for the pixel (x, y), and the loop control after it
\* (\E v \in {e} names the value of e, as var v = e does)
MapPixel ==
    /\ pc = "body"
    /\ \E c \in {cartesian_to_barycentric(dst_triangle, <<x, y>>)} :
       LET dst_pixel_start == pixel_start(x, y, dst_image_data.width)
           at == loop_at(x, y + 1, dst_image_data.width, dst_image_data.height)
       IN  /\ IF xy_in_triangle(c)
              THEN \E p \in {barycentric_to_cartesian(src_triangle, c)} :
                   \E start \in {sample_start(p, src_image_data.width)} :
                   \E copied \in {copy_pixel(dst_image_data.data, dst_pixel_start,
                                            src_image_data.data, start)} :
                       /\ src_xy' = p
                       /\ src_pixel_start' = start
                       /\ dst_image_data' = [dst_image_data EXCEPT !.data = copied.dst]
                       /\ src_image_data' = [src_image_data EXCEPT !.data = copied.src]
              ELSE /\ dst_image_data' =
                          [dst_image_data EXCEPT
                              !.data = fill_pixel(dst_image_data.data, dst_pixel_start)]
                   /\ UNCHANGED <<src_xy, src_pixel_start, src_image_data>>
           /\ iterations' = iterations + 1
           /\ x' = at.x
           /\ y' = at.y
           /\ pc' = at.pc
    /\ UNCHANGED <<src_triangle, dst_triangle, dst_at_call, calls, dst_after_first,
                   gvars, dvars, rvars, hvars, svars, pvars>>

\* map_triangle is called once more with the arguments of the call that has
\* returned: the same buffers (the destination as that call left it) and the
\* same triangles.  src_xy and src_pixel_start are globals and keep their values.
CallAgain ==
    /\ pc = "done"
    /\ calls = 1
    /\ calls' = 2
    /\ iterations' = 0
    /\ dst_after_first' = dst_image_data.data
    /\ dst_at_call' = dst_image_data.data
    /\ x' = loop_at(0, 0, dst_image_data.width, dst_image_data.height).x
    /\ y' = loop_at(0, 0, dst_image_data.width, dst_image_data.height).y
    /\ pc' = loop_at(0, 0, dst_image_data.width, dst_image_data.height).pc
    /\ UNCHANGED <<src_image_data, src_triangle, dst_image_data, dst_triangle,
                   src_xy, src_pixel_start, gvars, dvars, rvars, hvars, svars, pvars>>

NextMap == MapPixel \/ CallAgain

SpecMap == InitMap /\ [][NextMap]_vars

(***************************************************************************)
(* map_triangle from a picture onto a canvas of the picture's size, with   *)
(* the picture's triangle as the destination triangle.                     *)
(***************************************************************************)
IdSide == 4

\* a gradient: the pixel (px, py) is (px, py, px + py, 255)
Gradient(width, height) ==
    [width |-> width, height |-> height,
     data |-> [i \in 1..(PIXEL_WIDTH * width * height) |->
                 LET px == ((i - 1) \div PIXEL_WIDTH) % width
                     py == ((i - 1) \div PIXEL_WIDTH) \div width
                     k == (i - 1) % PIXEL_WIDTH
                 IN  IF k = 0 THEN px ELSE IF k = 1 THEN py
                     ELSE IF k = 2 THEN px + py ELSE 255]]

InitIdentity ==
    /\ src_image_data = Gradient(IdSide, IdSide)
    /\ dst_image_data = Blank(IdSide, IdSide, 128)
    /\ \E b \in Grid(IdSide - 1), c \in Grid(IdSide - 1) :
          src_triangle = <<<<0, 0>>, b, c>>
    /\ dst_triangle = src_triangle
    /\ dst_at_call = dst_image_data.data
    /\ x = loop_at(0, 0, IdSide, IdSide).x
    /\ y = loop_at(0, 0, IdSide, IdSide).y
    /\ pc = loop_at(0, 0, IdSide, IdSide).pc
    /\ src_xy = NoValue
    /\ src_pixel_start = NoValue
    /\ calls = 1
    /\ dst_after_first = NoValue
    /\ iterations = 0
    /\ GeomIdle
    /\ DemoIdle
    /\ ReactiveIdle
    /\ HMapIdle
    /\ SerializeIdle
    /\ PassIdle

SpecIdentity == InitIdentity /\ [][MapPixel]_vars

(***************************************************************************)
(* map_triangle from the triangle (0,0), (0,1), (1,1) of a picture of 2 by *)
(* 2 pixels onto the triangle (0,0), (0,n), (n,n) of a canvas of n by n.   *)
(***************************************************************************)
ScaleSide == 100

MaxSmallSide == 6

\* the sides n: the small ones, and the scenario's
ScaleSides == (1..MaxSmallSide) \cup {ScaleSide}

InitScale ==
    /\ src_image_data = Picture(2, 2)
    /\ src_triangle = <<<<0, 0>>, <<0, 1>>, <<1, 1>>>>
    /\ \E n \in ScaleSides :
          /\ dst_image_data = Blank(n, n, 128)
          /\ dst_triangle = <<<<0, 0>>, <<0, n>>, <<n, n>>>>
    /\ dst_at_call = dst_image_data.data
    /\ x = loop_at(0, 0, dst_image_data.width, dst_image_data.height).x
    /\ y = loop_at(0, 0, dst_image_data.width, dst_image_data.height).y
    /\ pc = loop_at(0, 0, dst_image_data.width, dst_image_data.height).pc
    /\ src_xy = NoValue
    /\ src_pixel_start = NoValue
    /\ calls = 1
    /\ dst_after_first = NoValue
    /\ iterations = 0
    /\ GeomIdle
    /\ DemoIdle
    /\ ReactiveIdle
    /\ HMapIdle
    /\ SerializeIdle
    /\ PassIdle

SpecScale == InitScale /\ [][MapPixel]_vars

(***************************************************************************)
(* map_triangle as one operation: the destination image data when the call *)
(* returns.                                                                *)
(***************************************************************************)
\* the body of the loops for the pixel (px, py): the destination's data after it
map_triangle_body(src, st, dst, dt, px, py) ==
    LET c == cartesian_to_barycentric(dt, <<px, py>>)
        start == pixel_start(px, py, dst.width)
    IN  IF xy_in_triangle(c)
        THEN copy_pixel(dst.data, start, src.data,
                        sample_start(barycentric_to_cartesian(st, c), src.width)).dst
        ELSE fill_pixel(dst.data, start)

RECURSIVE map_triangle_from(_, _, _, _, _)
map_triangle_from(src, st, dst, dt, at) ==
    IF at.pc = "done" THEN dst
    ELSE map_triangle_from(src, st,
                           [dst EXCEPT !.data = map_triangle_body(src, st, dst, dt, at.x, at.y)],
                           dt, loop_at(at.x, at.y + 1, dst.width, dst.height))

map_triangle(src, st, dst, dt) ==
    map_triangle_from(src, st, dst, dt, loop_at(0, 0, dst.width, dst.height))

(***************************************************************************)
(* The body of map_triangle's loops run by several workers, statement by   *)
(* statement.  Worker w takes the columns w - 1, w - 1 + NumWorkers, ...   *)
(* of the destination.  uv, xy_in_triangle and dst_pixel_start are         *)
(* declared with var and are each worker's own; src_xy and src_pixel_start *)
(* are assigned without var: they are properties of the global object,     *)
(* one of each for all workers.  The statements that touch only a worker's *)
(* own variables are one step.                                             *)
(***************************************************************************)
NumWorkers == 2

\* the pixels of worker w, in the order of the loops
PixelRange(w, width, height) ==
    LET columns == IF w - 1 < width
                   THEN (width - (w - 1) + NumWorkers - 1) \div NumWorkers
                   ELSE 0
    IN  [i \in 1..(columns * height) |->
            <<(w - 1) + NumWorkers * ((i - 1) \div height), (i - 1) % height>>]

\* the destination triangles of the passes: the viewport's shape
PassDstTriangles ==
    {<<<<0, 0>>, <<0, h>>, <<w, h>>>> : w \in 0..(DstWidth - 1), h \in 0..(DstHeight - 1)}

\* a source triangle inside the picture
PassSrcTriangles == {<<<<0, 0>>, <<0, SrcHeight - 1>>, <<SrcWidth - 1, SrcHeight - 1>>>>}

InitPass ==
    /\ src_image_data = Picture(SrcWidth, SrcHeight)
    /\ src_triangle \in PassSrcTriangles
    /\ dst_image_data = Blank(DstWidth, DstHeight, 128)
    /\ dst_triangle \in PassDstTriangles
    /\ dst_at_call = dst_image_data.data
    /\ x = 0
    /\ y = 0
    /\ pc = "pass"
    /\ src_xy = NoValue
    /\ src_pixel_start = NoValue
    /\ calls = 1
    /\ dst_after_first = NoValue
    /\ iterations = 0
    /\ written = [q \in (0..(DstWidth - 1)) \X (0..(DstHeight - 1)) |-> 0]
    /\ GeomIdle
    /\ DemoIdle
    /\ ReactiveIdle
    /\ HMapIdle
    /\ SerializeIdle

InitWorkers ==
    /\ InitPass
    /\ todo = NoValue
    /\ workers = [w \in 1..NumWorkers |->
                    [at |-> 1,
                     pc |-> IF PixelRange(w, DstWidth, DstHeight) = <<>>
                            THEN "done" ELSE "head",
                     uv |-> NoValue,
                     k |-> 0]]

\* the pixel that worker w is at
PixelOf(w) ==
    PixelRange(w, dst_image_data.width, dst_image_data.height)[workers[w].at]

\* worker w after the last assignment of its pixel: at its next pixel, or done
next_pixel(w) ==
    IF workers[w].at < Len(PixelRange(w, dst_image_data.width, dst_image_data.height))
    THEN [workers[w] EXCEPT !.at = @ + 1, !.pc = "head", !.k = 0]
    ELSE [workers[w] EXCEPT !.pc = "done", !.k = 0]

\* var uv = ...; var xy_in_triangle = ...; var dst_pixel_start = ...; if (xy_in_triangle)
WorkerHead(w) ==
    /\ workers[w].pc = "head"
    /\ \E c \in {cartesian_to_barycentric(dst_triangle, PixelOf(w))} :
          workers' = [workers EXCEPT ![w] =
                         [@ EXCEPT !.uv = c,
                                   !.pc = IF xy_in_triangle(c) THEN "src_xy" ELSE "fill"]]
    /\ UNCHANGED <<mvars, written, todo, gvars, dvars, rvars, hvars, svars>>

\* src_xy = barycentric_to_cartesian(src_triangle, uv);
WorkerSrcXY(w) ==
    /\ workers[w].pc = "src_xy"
    /\ src_xy' = barycentric_to_cartesian(src_triangle, workers[w].uv)
    /\ workers' = [workers EXCEPT ![w].pc = "src_pixel_start"]
    /\ UNCHANGED <<src_image_data, src_triangle, dst_image_data, dst_triangle, x, y, pc,
                   src_pixel_start, dst_at_call, calls, dst_after_first, iterations,
                   written, todo, gvars, dvars, rvars, hvars, svars>>

\* src_pixel_start = PIXEL_WIDTH * (Math.floor(src_xy[0]) + ...);
WorkerSrcPixelStart(w) ==
    /\ workers[w].pc = "src_pixel_start"
    /\ src_pixel_start' = sample_start(src_xy, src_image_data.width)
    /\ workers' = [workers EXCEPT ![w].pc = "copy"]
    /\ UNCHANGED <<src_image_data, src_triangle, dst_image_data, dst_triangle, x, y, pc,
                   src_xy, dst_at_call, calls, dst_after_first, iterations,
                   written, todo, gvars, dvars, rvars, hvars, svars>>

\* dst_pixel_data[dst_pixel_start + k] = src_pixel_data[src_pixel_start + k];
WorkerCopy(w) ==
    /\ workers[w].pc = "copy"
    /\ LET q == PixelOf(w)
           dst_pixel_start == pixel_start(q[1], q[2], dst_image_data.width)
           k == workers[w].k
       IN  /\ dst_image_data' =
                  [dst_image_data EXCEPT
                      !.data = store(@, dst_pixel_start + k,
                                     load(src_image_data.data, src_pixel_start + k))]
           /\ IF k < PIXEL_WIDTH - 1
              THEN /\ workers' = [workers EXCEPT ![w].k = k + 1]
                   /\ UNCHANGED written
              ELSE /\ workers' = [workers EXCEPT ![w] = next_pixel(w)]
                   /\ written' = [written EXCEPT ![q] = @ + 1]
    /\ UNCHANGED <<src_image_data, src_triangle, dst_triangle, x, y, pc, src_xy,
                   src_pixel_start, dst_at_call, calls, dst_after_first, iterations,
                   todo, gvars, dvars, rvars, hvars, svars>>

\* dst_pixel_data[dst_pixel_start + k] = 255;
WorkerFill(w) ==
    /\ workers[w].pc = "fill"
    /\ LET q == PixelOf(w)
           dst_pixel_start == pixel_start(q[1], q[2], dst_image_data.width)
           k == workers[w].k
       IN  /\ dst_image_data' =
                  [dst_image_data EXCEPT !.data = store(@, dst_pixel_start + k, <<255>>)]
           /\ IF k < PIXEL_WIDTH - 1
              THEN /\ workers' = [workers EXCEPT ![w].k = k + 1]
                   /\ UNCHANGED written
              ELSE /\ workers' = [workers EXCEPT ![w] = next_pixel(w)]
                   /\ written' = [written EXCEPT ![q] = @ + 1]
    /\ UNCHANGED <<src_image_data, src_triangle, dst_triangle, x, y, pc, src_xy,
                   src_pixel_start, dst_at_call, calls, dst_after_first, iterations,
                   todo, gvars, dvars, rvars, hvars, svars>>

NextWorkers ==
    \E w \in 1..NumWorkers :
        \/ WorkerHead(w)
        \/ WorkerSrcXY(w)
        \/ WorkerSrcPixelStart(w)
        \/ WorkerCopy(w)
        \/ WorkerFill(w)

SpecWorkers == InitWorkers /\ [][NextWorkers]_vars

(***************************************************************************)
(* The body of map_triangle's loops run once for each destination pixel,   *)
(* in any order: the row-major scan and the code's column-major scan are   *)
(* two of the orders.                                                      *)
(***************************************************************************)
InitOrder ==
    /\ InitPass
    /\ workers = NoValue
    /\ todo = (0..(DstWidth - 1)) \X (0..(DstHeight - 1))

\* the body of the loops for a pixel q not yet visited
VisitPixel ==
    /\ pc = "pass"
    /\ \E q \in todo :
       \E c \in {cartesian_to_barycentric(dst_triangle, q)} :
       LET dst_pixel_start == pixel_start(q[1], q[2], dst_image_data.width)
       IN  /\ IF xy_in_triangle(c)
              THEN \E p \in {barycentric_to_cartesian(src_triangle, c)} :
                   \E start \in {sample_start(p, src_image_data.width)} :
                   \E copied \in {copy_pixel(dst_image_data.data, dst_pixel_start,
                                            src_image_data.data, start)} :
                       /\ src_xy' = p
                       /\ src_pixel_start' = start
                       /\ dst_image_data' = [dst_image_data EXCEPT !.data = copied.dst]
                       /\ src_image_data' = [src_image_data EXCEPT !.data = copied.src]
              ELSE /\ dst_image_data' =
                          [dst_image_data EXCEPT
                              !.data = fill_pixel(dst_image_data.data, dst_pixel_start)]
                   /\ UNCHANGED <<src_xy, src_pixel_start, src_image_data>>
           /\ todo' = todo \ {q}
           /\ written' = [written EXCEPT ![q] = @ + 1]
           /\ iterations' = iterations + 1
    /\ UNCHANGED <<src_triangle, dst_triangle, x, y, pc, dst_at_call, calls,
                   dst_after_first, workers, gvars, dvars, rvars, hvars, svars>>

SpecOrder == InitOrder /\ [][VisitPixel]_vars

(***************************************************************************)
(* Two calls of map_triangle on one destination buffer, the second with    *)
(* arguments of its own.  The first call finds in the buffer what some     *)
(* earlier drawing left; the second finds what the first call left, and    *)
(* the globals src_xy and src_pixel_start as the first call left them.     *)
(***************************************************************************)
CallFills == {0, 128}

InitCalls ==
    /\ src_image_data = Picture(SrcWidth, SrcHeight)
    /\ src_triangle \in SrcTriangles
    /\ \E f \in CallFills : dst_image_data = Blank(DstWidth, DstHeight, f)
    /\ dst_triangle \in PassDstTriangles
    /\ dst_at_call = dst_image_data.data
    /\ x = loop_at(0, 0, DstWidth, DstHeight).x
    /\ y = loop_at(0, 0, DstWidth, DstHeight).y
    /\ pc = loop_at(0, 0, DstWidth, DstHeight).pc
    /\ src_xy = NoValue
    /\ src_pixel_start = NoValue
    /\ calls = 1
    /\ dst_after_first = NoValue
    /\ iterations = 0
    /\ GeomIdle
    /\ DemoIdle
    /\ ReactiveIdle
    /\ HMapIdle
    /\ SerializeIdle
    /\ PassIdle

\* map_triangle is called once more, with triangles of its own, on the
\* buffers of the call that has returned
CallOther ==
    /\ pc = "done"
    /\ calls = 1
    /\ calls' = 2
    /\ iterations' = 0
    /\ src_triangle' \in SrcTriangles
    /\ dst_triangle' \in PassDstTriangles
    /\ dst_after_first' = dst_image_data.data
    /\ dst_at_call' = dst_image_data.data
    /\ x' = loop_at(0, 0, dst_image_data.width, dst_image_data.height).x
    /\ y' = loop_at(0, 0, dst_image_data.width, dst_image_data.height).y
    /\ pc' = loop_at(0, 0, dst_image_data.width, dst_image_data.height).pc
    /\ UNCHANGED <<src_image_data, dst_image_data, src_xy, src_pixel_start,
                   gvars, dvars, rvars, hvars, svars, pvars>>

NextCalls == MapPixel \/ CallOther

SpecCalls == InitCalls /\ [][NextCalls]_vars

(***************************************************************************)
(* One call of map_triangle on destination buffers of every size from      *)
(* 0 x 0 on.  Nothing but the loops' own steps takes place, and a step     *)
(* that can be taken is taken: the script runs to completion.              *)
(***************************************************************************)
MaxTermSide == 3

InitTerm ==
    /\ src_image_data = Picture(SrcWidth, SrcHeight)
    /\ src_triangle \in PassSrcTriangles
    /\ \E width \in 0..MaxTermSide, height \in 0..MaxTermSide :
          /\ dst_image_data = Blank(width, height, 128)
          /\ x = loop_at(0, 0, width, height).x
          /\ y = loop_at(0, 0, width, height).y
          /\ pc = loop_at(0, 0, width, height).pc
    /\ dst_triangle \in PassDstTriangles
    /\ dst_at_call = dst_image_data.data
    /\ src_xy = NoValue
    /\ src_pixel_start = NoValue
    /\ calls = 1
    /\ dst_after_first = NoValue
    /\ iterations = 0
    /\ GeomIdle
    /\ DemoIdle
    /\ ReactiveIdle
    /\ HMapIdle
    /\ SerializeIdle
    /\ PassIdle

SpecTerm == InitTerm /\ [][MapPixel]_vars

\* weak fairness of MapPixel, WF_vars(MapPixel), written out: MapPixel is
\* enabled in the states with pc = "body" and in no others, and each of its
\* steps changes iterations
SpecTermFair == SpecTerm /\ ([]<>(pc # "body") \/ []<><<MapPixel>>_vars)

\* the destination that the code's own pass makes of the buffers of the call
sequential_pass ==
    map_triangle(src_image_data, src_triangle,
                 [dst_image_data EXCEPT !.data = dst_at_call], dst_triangle).data

(***************************************************************************)
(* map_triangle from a tall picture onto a wide canvas, with source        *)
(* triangles whose corners are pixels of the picture.                      *)
(***************************************************************************)
ExtSrcWidth == 2

ExtSrcHeight == 4

ExtDstWidth == 6

ExtDstHeight == 2

\* b at the picture's origin, a below it and c to its right
ExtSrcTriangles ==
    {<<<<0, h>>, <<0, 0>>, <<w, 0>>>> :
        w \in 0..(ExtSrcWidth - 1), h \in 0..(ExtSrcHeight - 1)}

\* triangles of the viewport triangle's shape on the canvas
ExtDstTriangles ==
    {<<<<0, 0>>, <<0, h>>, <<w, h>>>> :
        w \in 0..(ExtDstWidth - 1), h \in 0..(ExtDstHeight - 1)}

InitExtent ==
    /\ src_image_data = Picture(ExtSrcWidth, ExtSrcHeight)
    /\ src_triangle \in ExtSrcTriangles
    /\ dst_image_data = Blank(ExtDstWidth, ExtDstHeight, 128)
    /\ dst_triangle \in ExtDstTriangles
    /\ dst_at_call = dst_image_data.data
    /\ x = loop_at(0, 0, ExtDstWidth, ExtDstHeight).x
    /\ y = loop_at(0, 0, ExtDstWidth, ExtDstHeight).y
    /\ pc = loop_at(0, 0, ExtDstWidth, ExtDstHeight).pc
    /\ src_xy = NoValue
    /\ src_pixel_start = NoValue
    /\ calls = 1
    /\ dst_after_first = NoValue
    /\ iterations = 0
    /\ GeomIdle
    /\ DemoIdle
    /\ ReactiveIdle
    /\ HMapIdle
    /\ SerializeIdle
    /\ PassIdle

SpecExtent == InitExtent /\ [][MapPixel]_vars

(***************************************************************************)
(* The demo page.  The output control has three draggable corners whose    *)
(* positions are observables; warped_triangle is computed from them, and a *)
(* computed observable that reads warped_triangle and the input image data *)
(* redraws the output canvas.  Knockout re-evaluates a computed observable *)
(* within the write of an observable it has read, so each event handler    *)
(* below runs to its end with the redraw in it.  An observable's value is  *)
(* <<v>>, or <<>> when it holds undefined.                                 *)
(***************************************************************************)
DemoSide == 2

p2v(p) == <<p.x, p.y>>

v2p(v) == [x |-> v[1], y |-> v[2]]

\* the viewport triangle of the input control: A top left, B below it, C to
\* the right of B
viewport_triangle == <<[x |-> 0, y |-> 0], [x |-> 0, y |-> 1], [x |-> 1, y |-> 1]>>

input_triangle == [i \in 1..3 |-> p2v(viewport_triangle[i])]

\* where a corner can be dragged to
Positions == {[x |-> i, y |-> j] : i \in 0..(DemoSide - 1), j \in 0..1}

\* what the image layer of the input control can show: the picture where it
\* was loaded, and the picture dragged elsewhere
DemoPictures ==
    {[width |-> DemoSide, height |-> DemoSide,
      data |-> [i \in 1..(PIXEL_WIDTH * DemoSide * DemoSide) |-> first + i]] :
        first \in {10, 60}}

\* the triangle drawn from once, at construction, and never read again
warped_triangle_initial(cs) == viewport_triangle

\* self.warped_triangle: the positions of the corners
warped_triangle(cs) == [i \in 1..3 |-> cs[i]]

\* the computed observable without its bail-out: with no image data it maps
\* from an empty picture
redraw_unguarded(image_data, cs, shown) ==
    map_triangle(IF image_data = <<>> THEN Blank(DemoSide, DemoSide, 0)
                 ELSE image_data[1],
                 input_triangle, shown,
                 [i \in 1..3 |-> p2v(warped_triangle(cs)[i])])

\* the computed observable that draws: what the canvas shows after it ran
redraw(image_data, cs, shown) ==
    IF image_data = <<>> THEN shown
    ELSE map_triangle(image_data[1], input_triangle, shown,
                      [i \in 1..3 |-> p2v(warped_triangle(cs)[i])])

InitDemo ==
    /\ corners = [i \in 1..3 |-> v2p(input_triangle[i])]
    /\ input_image_data = <<>>
    /\ canvas = redraw(<<>>, corners, Blank(DemoSide, DemoSide, 0))
    /\ event = "ready"
    /\ GeomIdle
    /\ MapIdle
    /\ ReactiveIdle
    /\ HMapIdle
    /\ SerializeIdle
    /\ PassIdle

\* group.on('dragmove', ...): the corner's position observable is written
DragCorner ==
    \E i \in 1..3, p \in Positions :
        /\ corners' = [corners EXCEPT ![i] = p]
        /\ canvas' = redraw(input_image_data, corners', canvas)
        /\ event' = "dragmove"
        /\ UNCHANGED <<input_image_data, gvars, mvars, rvars, hvars, svars, pvars>>

\* img.onload: the image layer is drawn and its image data published
ImageLoaded ==
    /\ input_image_data = <<>>
    /\ \E picture \in DemoPictures :
          /\ input_image_data' = <<picture>>
          /\ canvas' = redraw(<<picture>>, corners, canvas)
    /\ event' = "onload"
    /\ UNCHANGED <<corners, gvars, mvars, rvars, hvars, svars, pvars>>

\* image.on("dragmove", update_image_data): the image data is published anew
DragImage ==
    /\ input_image_data # <<>>
    /\ \E picture \in DemoPictures :
          /\ input_image_data' = <<picture>>
          /\ canvas' = redraw(<<picture>>, corners, canvas)
    /\ event' = "imagemove"
    /\ UNCHANGED <<corners, gvars, mvars, rvars, hvars, svars, pvars>>

NextDemo == DragCorner \/ ImageLoaded \/ DragImage

SpecDemo == InitDemo /\ [][NextDemo]_vars

(***************************************************************************)
(* reactive.js.  An EventStream or Behavior is named by a string (the      *)
(* object new makes); h is the heap: the Behaviors' values, the callbacks  *)
(* bound to each object in the order of binding, each switcherB's          *)
(* currentB, and what each watching observer was called with.  A callback  *)
(* is the closure [kind, to]: the function literal of the combinator kind, *)
(* closed over the object to that the combinator made.  bind, unbind and   *)
(* trigger are Backbone.Events': trigger calls each bound callback in the  *)
(* order of binding, each to its end before the next.                      *)
(***************************************************************************)
MaxValue == 2

MaxHistory == 5

Values == 0..MaxValue

\* the function mapped (Math.floor(decis / 10) in the page; here a half)
fB == [v \in Values |-> v \div 2]

EmptyHeap == [value |-> <<>>, observers |-> <<>>, currentB |-> <<>>, notified |-> <<>>]

bind(h, obj, callback) == [h EXCEPT !.observers[obj] = Append(@, callback)]

RECURSIVE without(_, _)
without(list, callback) ==
    IF list = <<>> THEN <<>>
    ELSE IF Head(list) = callback THEN Tail(list)
    ELSE <<Head(list)>> \o without(Tail(list), callback)

\* unbind that removes nothing (the callback is not recognized)
unbind_nothing(h, obj, callback) == h

unbind(h, obj, callback) == [h EXCEPT !.observers[obj] = without(@, callback)]

listen(h, stream, callback) == bind(h, stream, callback)

observe(h, behavior, fn) == bind(h, behavior, fn)

unobserve(h, behavior, fn) == unbind(h, behavior, fn)

RECURSIVE call(_, _, _)

RECURSIVE trigger_from(_, _, _, _)
trigger_from(h, list, i, payload) ==
    IF i > Len(list) THEN h
    ELSE trigger_from(call(h, list[i], payload), list, i + 1, payload)

trigger(h, obj, payload) == trigger_from(h, h.observers[obj], 1, payload)

occur(h, stream, payload) == trigger(h, stream, payload)

\* _change without its trigger: the value is stored and nobody is told
change_silent(h, behavior, newValue) == [h EXCEPT !.value[behavior] = newValue]

\* _change with its two statements in the other order: the observers are
\* told, then the value is stored
change_notify_first(h, behavior, newValue) ==
    [trigger(h, behavior, newValue) EXCEPT !.value[behavior] = newValue]

change(h, behavior, newValue) ==
    trigger([h EXCEPT !.value[behavior] = newValue], behavior, newValue)

\* the predicate filtered by (value % 10 == 0 in the page; here evenness)
wraps(v) == v % 2 = 0

\* the function literals that the combinators bind
call(h, callback, payload) ==
    CASE callback.kind = "stepperB" -> change(h, callback.to, payload)
      [] callback.kind = "mapE" -> occur(h, callback.to, fB[payload])
      [] callback.kind = "mapB" -> change(h, callback.to, fB[payload])
      [] callback.kind = "changesE" -> occur(h, callback.to, payload)
      [] callback.kind = "filterE" ->
            IF wraps(payload) THEN occur(h, callback.to, payload) ELSE h
      [] callback.kind = "snapshotE" ->
            occur(h, callback.to, h.value[callback.behavior])
      [] callback.kind = "switcherB.callback" -> change(h, callback.to, payload)
      [] callback.kind = "switcherB.listen" ->
            LET fn == [kind |-> "switcherB.callback", to |-> callback.to]
                h1 == unobserve(h, h.currentB[callback.to], fn)
                h2 == [h1 EXCEPT !.currentB[callback.to] = payload]
                h3 == observe(h2, payload, fn)
            IN  change(h3, callback.to, h3.value[payload])
      [] callback.kind = "watch" ->
            [h EXCEPT !.notified[callback.to] = Append(@, payload)]

EventStream(h, id) == [h EXCEPT !.observers = @ @@ (id :> <<>>)]

Behavior(h, id, initialValue) ==
    [h EXCEPT !.value = @ @@ (id :> initialValue), !.observers = @ @@ (id :> <<>>)]

stepperB(h, id, initialValue, stream) ==
    listen(Behavior(h, id, initialValue), stream, [kind |-> "stepperB", to |-> id])

\* mapE that passes the payload on as it is
mapE_unmapped(h, id, stream) ==
    listen(EventStream(h, id), stream, [kind |-> "changesE", to |-> id])

mapE(h, id, stream) ==
    listen(EventStream(h, id), stream, [kind |-> "mapE", to |-> id])

mapB(h, id, behavior) ==
    observe(Behavior(h, id, h.value[behavior]), behavior, [kind |-> "mapB", to |-> id])

changesE(h, id, behavior) ==
    observe(EventStream(h, id), behavior, [kind |-> "changesE", to |-> id])

filterE(h, id, stream) ==
    listen(EventStream(h, id), stream, [kind |-> "filterE", to |-> id])

snapshotE(h, id, behavior, stream) ==
    listen(EventStream(h, id), stream,
           [kind |-> "snapshotE", to |-> id, behavior |-> behavior])

\* ids: the stepper's Behavior, the mapped stream, the stream of changes
mapB_2(h, ids, behavior) ==
    stepperB(mapE(changesE(h, ids[3], behavior), ids[2], ids[3]),
             ids[1], h.value[behavior], ids[2])

switcherB(h, id, initialB, behaviorsE) ==
    LET h1 == Behavior(h, id, h.value[initialB])
        h2 == [h1 EXCEPT !.currentB = @ @@ (id :> initialB)]
        h3 == observe(h2, initialB, [kind |-> "switcherB.callback", to |-> id])
    IN  listen(h3, behaviorsE, [kind |-> "switcherB.listen", to |-> id])

\* an observer of the behavior that keeps what it is called with
watch(h, behavior) ==
    observe([h EXCEPT !.notified = @ @@ (behavior :> <<>>)], behavior,
            [kind |-> "watch", to |-> behavior])

\* S = stepperB(initialValue, E)
StepperNet(initialValue) ==
    watch(stepperB(EventStream(EmptyHeap, "E"), "S", initialValue, "E"), "S")

\* M = mapB(f, B0) and M2 = mapB_2(f, B0)
MapNet(v0) ==
    LET h1 == mapB(Behavior(EmptyHeap, "B0", v0), "M", "B0")
        h2 == mapB_2(h1, <<"M2", "mappedE", "changes">>, "B0")
    IN  watch(watch(h2, "M"), "M2")

\* SW = switcherB(B1, BE)
SwitcherNet(v1, v2) ==
    LET h1 == Behavior(Behavior(EmptyHeap, "B1", v1), "B2", v2)
    IN  watch(switcherB(EventStream(h1, "BE"), "SW", "B1", "BE"), "SW")

Heap == [value |-> value, observers |-> observers, currentB |-> currentB,
         notified |-> notified]

InitReactive ==
    /\ \/ \E v \in Values :
             /\ \E h \in {StepperNet(v)} :
                   /\ value = h.value
                   /\ observers = h.observers
                   /\ currentB = h.currentB
                   /\ notified = h.notified
             /\ history = <<<<"new S", v>>>>
       \/ \E v \in Values :
             /\ \E h \in {MapNet(v)} :
                   /\ value = h.value
                   /\ observers = h.observers
                   /\ currentB = h.currentB
                   /\ notified = h.notified
             /\ history = <<<<"new B0", v>>>>
       \/ \E v1 \in Values, v2 \in Values :
             /\ \E h \in {SwitcherNet(v1, v2)} :
                   /\ value = h.value
                   /\ observers = h.observers
                   /\ currentB = h.currentB
                   /\ notified = h.notified
             /\ history = <<<<"new B1", v1>>, <<"new B2", v2>>>>
    /\ GeomIdle
    /\ MapIdle
    /\ DemoIdle
    /\ HMapIdle
    /\ SerializeIdle
    /\ PassIdle

\* an occurrence on the stream E
OccurE ==
    /\ "E" \in DOMAIN observers
    /\ Len(history) < MaxHistory
    /\ \E v \in Values :
          /\ \E h \in {occur(Heap, "E", v)} :
                /\ value' = h.value
                /\ observers' = h.observers
                /\ currentB' = h.currentB
                /\ notified' = h.notified
          /\ history' = Append(history, <<"E", v>>)
    /\ UNCHANGED <<gvars, mvars, dvars, hvars, svars, pvars>>

\* a change of one of the behaviors B0, B1, B2
ChangeB ==
    /\ Len(history) < MaxHistory
    /\ \E b \in {"B0", "B1", "B2"} \cap DOMAIN value, v \in Values :
          /\ \E h \in {change(Heap, b, v)} :
                /\ value' = h.value
                /\ observers' = h.observers
                /\ currentB' = h.currentB
                /\ notified' = h.notified
          /\ history' = Append(history, <<b, v>>)
    /\ UNCHANGED <<gvars, mvars, dvars, hvars, svars, pvars>>

\* an occurrence on the stream BE: it delivers B1 or B2
OccurBE ==
    /\ "BE" \in DOMAIN observers
    /\ Len(history) < MaxHistory
    /\ \E newB \in {"B1", "B2"} :
          /\ \E h \in {occur(Heap, "BE", newB)} :
                /\ value' = h.value
                /\ observers' = h.observers
                /\ currentB' = h.currentB
                /\ notified' = h.notified
          /\ history' = Append(history, <<"BE", newB>>)
    /\ UNCHANGED <<gvars, mvars, dvars, hvars, svars, pvars>>

NextReactive == OccurE \/ ChangeB \/ OccurBE

SpecReactive == InitReactive /\ [][NextReactive]_vars

(***************************************************************************)
(* The page's snapshot of decisB: decisWrapE = filterE(p, changesE(decisB)) *)
(* and decisWhenWrappedB = stepperB(decisB.value, snapshotE(decisB,        *)
(* decisWrapE)); and beside it a snapshot of decisB taken on a stream      *)
(* tickE that does not come from decisB.                                   *)
(***************************************************************************)
SnapshotNet(v0) ==
    LET h1 == changesE(Behavior(EmptyHeap, "decisB", v0), "changes", "decisB")
        h2 == filterE(h1, "decisWrapE", "changes")
        h3 == snapshotE(h2, "snapshots", "decisB", "decisWrapE")
        h4 == stepperB(h3, "decisWhenWrappedB", h3.value["decisB"], "snapshots")
        h5 == snapshotE(EventStream(h4, "tickE"), "tickSnapshots", "decisB", "tickE")
        h6 == stepperB(h5, "decisAtTickB", h5.value["decisB"], "tickSnapshots")
    IN  watch(watch(h6, "decisWhenWrappedB"), "decisAtTickB")

InitSnapshot ==
    /\ \E v \in Values :
          /\ \E h \in {SnapshotNet(v)} :
                /\ value = h.value
                /\ observers = h.observers
                /\ currentB = h.currentB
                /\ notified = h.notified
          /\ history = <<<<"new decisB", v>>>>
    /\ GeomIdle
    /\ MapIdle
    /\ DemoIdle
    /\ HMapIdle
    /\ SerializeIdle
    /\ PassIdle

\* decisB._change(v)
ChangeDecis ==
    /\ Len(history) < MaxHistory
    /\ \E v \in Values :
          /\ \E h \in {change(Heap, "decisB", v)} :
                /\ value' = h.value
                /\ observers' = h.observers
                /\ currentB' = h.currentB
                /\ notified' = h.notified
          /\ history' = Append(history, <<"decisB", v>>)
    /\ UNCHANGED <<gvars, mvars, dvars, hvars, svars, pvars>>

\* an occurrence on the stream tickE
OccurTick ==
    /\ Len(history) < MaxHistory
    /\ \E h \in {occur(Heap, "tickE", 0)} :
          /\ value' = h.value
          /\ observers' = h.observers
          /\ currentB' = h.currentB
          /\ notified' = h.notified
    /\ history' = Append(history, <<"tickE", 0>>)
    /\ UNCHANGED <<gvars, mvars, dvars, hvars, svars, pvars>>

NextSnapshot == ChangeDecis \/ OccurTick

SpecSnapshot == InitSnapshot /\ [][NextSnapshot]_vars

(***************************************************************************)
(* HMap.scala.  A key is a WithPhantom: a value and the Manifest of its    *)
(* phantom type, here the name of the manifest's erasure.  An immutable    *)
(* Map is the sequence of its bindings <<key, value>>, each key bound once *)
(* (keys compared with equals); an Option is <<v>> for Some(v) and <<>>    *)
(* for None.  A WrappedMap object is its underlyingMap, and objects keeps  *)
(* the WrappedMaps in the order new made them.                             *)
(***************************************************************************)
MaxKey == 1

MaxPuts == 2

\* the Manifest of a type: the erased class and the type arguments
Manifest(erasure, typeArguments) == [erasure |-> erasure, typeArguments |-> typeArguments]

\* the phantom types: Int and String (those of arbHMap), and two types of one
\* erased class, List[Int] and List[Long]
Manifests ==
    {Manifest("Int", <<>>), Manifest("String", <<>>),
     Manifest("List", <<"Int">>), Manifest("List", <<"Long">>)}

WithPhantom(v, phantom) == [v |-> v, m |-> phantom]

\* WithPhantom.equals
equals(this, other) == other.m.erasure = this.m.erasure /\ other.v = this.v

\* the keys TInt[T], T a phantom type
Keys == {WithPhantom(i, phantom) : i \in 0..MaxKey, phantom \in Manifests}

\* the values that a key's type admits
ValuesOf(key) ==
    CASE key.m.erasure = "Int" -> {0, 1}
      [] key.m.erasure = "String" -> {"a", "b"}
      [] key.m = Manifest("List", <<"Int">>) -> {<<>>, <<0>>}
      [] key.m = Manifest("List", <<"Long">>) -> {<<>>, <<1>>}

None == <<>>

Some(v) == <<v>>

\* Map.get
RECURSIVE map_get(_, _)
map_get(map, key) ==
    IF map = <<>> THEN None
    ELSE IF equals(Head(map)[1], key) THEN Some(Head(map)[2])
    ELSE map_get(Tail(map), key)

\* map + (key -> value) that leaves a key already bound as it is
RECURSIVE map_plus_keep(_, _, _)
map_plus_keep(map, key, v) ==
    IF map = <<>> THEN <<<<key, v>>>>
    ELSE IF equals(Head(map)[1], key) THEN map
    ELSE <<Head(map)>> \o map_plus_keep(Tail(map), key, v)

\* map + (key -> v)
RECURSIVE map_plus(_, _, _)
map_plus(map, key, v) ==
    IF map = <<>> THEN <<<<key, v>>>>
    ELSE IF equals(Head(map)[1], key) THEN <<<<Head(map)[1], v>>>> \o Tail(map)
    ELSE <<Head(map)>> \o map_plus(Tail(map), key, v)

\* WrappedMap.get of the object m
get(objs, m, key) == map_get(objs[m], key)

\* put that adds the binding to the receiver's own map and returns a copy
put_in_place(objs, m, key, v) ==
    Append([objs EXCEPT ![m] = map_plus(@, key, v)], map_plus(objs[m], key, v))

\* WrappedMap.put of the object m: the objects with the new WrappedMap, which
\* is the last of them
put(objs, m, key, v) == Append(objs, map_plus(objs[m], key, v))

\* HMap.empty
empty == <<<<>>>>

InitHMap ==
    /\ objects = empty
    /\ hmap = 1
    /\ last = <<>>
    /\ GeomIdle
    /\ MapIdle
    /\ DemoIdle
    /\ ReactiveIdle
    /\ SerializeIdle
    /\ PassIdle

\* hmap = m.put(key, value), m any of the maps made so far
Put ==
    /\ Len(objects) <= MaxPuts
    /\ \E m \in 1..Len(objects), key \in Keys :
          \E v \in ValuesOf(key) :
              /\ objects' = put(objects, m, key, v)
              /\ hmap' = Len(objects')
              /\ last' = <<[m |-> m, key |-> key, value |-> v,
                            result |-> Len(objects'), was |-> objects[m]]>>
    /\ UNCHANGED <<gvars, mvars, dvars, rvars, svars, pvars>>

NextHMap == Put

SpecHMap == InitHMap /\ [][NextHMap]_vars

(***************************************************************************)
(* The Serialize type class (HMap.scala, lines 206-358).  A String is the  *)
(* sequence of its characters; a type is <<"String">>, <<"Int">>,          *)
(* <<"Tuple2", A, B>> or <<"Version">>; a pair is <<a, b>> and a Version   *)
(* is a record.                                                            *)
(***************************************************************************)
MaxTokens == 2

MaxInt == 11

Digits == <<"0", "1", "2", "3", "4", "5", "6", "7", "8", "9">>

\* java.lang.Integer: MIN_VALUE and MAX_VALUE
MIN_VALUE == (-2147483647) - 1

MAX_VALUE == 2147483647

\* Integer.toString of an i <= 0 without its sign
RECURSIVE digitsOf(_)
digitsOf(i) ==
    LET q == (i + 9) \div 10
        r == (q * 10) - i
    IN  IF q = 0 THEN <<Digits[r + 1]>> ELSE digitsOf(q) \o <<Digits[r + 1]>>

\* v.toString, v an Int
toString(i) == IF i < 0 THEN <<"-">> \o digitsOf(i) ELSE digitsOf(-i)

digit(c) == CHOOSE d \in 0..9 : Digits[d + 1] = c

isDigit(c) == \E d \in 0..9 : Digits[d + 1] = c

\* Integer.parseInt from the first digit on: the number is accumulated
\* negatively in result; <<>> stands for the NumberFormatException
RECURSIVE parseDigits(_, _, _)
parseDigits(str, result, limit) ==
    IF str = <<>> THEN <<result>>
    ELSE IF ~isDigit(Head(str)) THEN <<>>
    ELSE IF result < (limit + 9) \div 10 THEN <<>>
    ELSE IF result * 10 < limit + digit(Head(str)) THEN <<>>
    ELSE parseDigits(Tail(str), (result * 10) - digit(Head(str)), limit)

\* s.toInt in try { Some(s.toInt) } catch { case _ => None }
toInt(str) ==
    IF str = <<>> THEN <<>>
    ELSE IF Head(str) = "-"
         THEN IF Tail(str) = <<>> THEN <<>> ELSE parseDigits(Tail(str), 0, MIN_VALUE)
    ELSE IF Head(str) = "+"
         THEN IF Tail(str) = <<>> THEN <<>>
              ELSE LET r == parseDigits(Tail(str), 0, -MAX_VALUE)
                   IN  IF r = <<>> THEN <<>> ELSE <<-r[1]>>
    ELSE LET r == parseDigits(str, 0, -MAX_VALUE)
         IN  IF r = <<>> THEN <<>> ELSE <<-r[1]>>

\* String.replaceAll for a literal pattern
RECURSIVE replaceAll(_, _, _)
replaceAll(str, pattern, replacement) ==
    IF Len(str) < Len(pattern) THEN str
    ELSE IF SubSeq(str, 1, Len(pattern)) = pattern
         THEN replacement \o replaceAll(SubSeq(str, Len(pattern) + 1, Len(str)),
                                        pattern, replacement)
    ELSE <<Head(str)>> \o replaceAll(Tail(str), pattern, replacement)

\* s.split(",", -1).toList: the pieces between the commas, the empty ones too
RECURSIVE split(_)
split(str) ==
    IF \A i \in 1..Len(str) : str[i] # "," THEN <<str>>
    ELSE LET i == CHOOSE j \in 1..Len(str) :
                      str[j] = "," /\ \A k \in 1..(j - 1) : str[k] # ","
         IN  <<SubSeq(str, 1, i - 1)>> \o split(SubSeq(str, i + 1, Len(str)))

amp == <<"&">>

comma == <<",">>

amp_entity == <<"&", "a", "m", "p", ";">>

comma_entity == <<"&", "c", "o", "m", "m", "a", ";">>

\* escape that leaves & as it is
escape_commas(str) == replaceAll(str, comma, comma_entity)

escape(str) == replaceAll(replaceAll(str, amp, amp_entity), comma, comma_entity)

unescape(str) == replaceAll(replaceAll(str, comma_entity, comma), amp_entity, amp)

\* Serialize.serialize with the instance of the type T
RECURSIVE serialize(_, _)
serialize(T, v) ==
    CASE T[1] = "String" -> v
      [] T[1] = "Int" -> toString(v)
      [] T[1] = "Tuple2" ->
            escape(serialize(T[2], v[1])) \o comma \o escape(serialize(T[3], v[2]))
      [] T[1] = "Version" ->
            serialize(<<"Tuple2", <<"Int">>, <<"Int">>>>, <<v.major, v.minor>>)

\* Serialize.deserialize with the instance of the type T
RECURSIVE deserialize(_, _)
deserialize(T, str) ==
    CASE T[1] = "String" -> Some(str)
      [] T[1] = "Int" -> toInt(str)
      [] T[1] = "Tuple2" ->
            LET parts == split(str)
            IN  IF Len(parts) # 2 THEN None
                ELSE LET left == deserialize(T[2], unescape(parts[1]))
                         right == deserialize(T[3], unescape(parts[2]))
                     IN  IF left = None \/ right = None THEN None
                         ELSE Some(<<left[1], right[1]>>)
      [] T[1] = "Version" ->
            LET pair == deserialize(<<"Tuple2", <<"Int">>, <<"Int">>>>, str)
            IN  IF pair = None THEN None
                ELSE Some([major |-> pair[1][1], minor |-> pair[1][2]])

\* the pieces that the Strings are made of
Tokens == {amp, comma, amp_entity, comma_entity, <<"7">>}

\* the Strings of at most n pieces
RECURSIVE Strings(_)
Strings(n) ==
    IF n = 0 THEN {<<>>}
    ELSE Strings(n - 1) \cup {str \o t : str \in Strings(n - 1), t \in Tokens}

Ints == (-MaxInt..MaxInt) \cup {MIN_VALUE, MAX_VALUE}

\* the types with an instance that are checked, nested pairs over shorter
\* Strings
SerializeTypes ==
    {<<"String">>, <<"Int">>, <<"Version">>,
     <<"Tuple2", <<"Int">>, <<"String">>>>,
     <<"Tuple2", <<"String">>, <<"String">>>>,
     <<"Tuple2", <<"Tuple2", <<"String">>, <<"String">>>>, <<"String">>>>,
     <<"Tuple2", <<"String">>, <<"Tuple2", <<"Int">>, <<"String">>>>>>}

\* the values of the type T, with Strings of at most n pieces
RECURSIVE ValuesOfType(_, _)
ValuesOfType(T, n) ==
    CASE T[1] = "String" -> Strings(n)
      [] T[1] = "Int" -> Ints
      [] T[1] = "Version" -> [major : Ints, minor : Ints]
      [] T[1] = "Tuple2" ->
            LET m == IF T[2][1] = "Tuple2" \/ T[3][1] = "Tuple2" THEN n - 1 ELSE n
            IN  ValuesOfType(T[2], m) \X ValuesOfType(T[3], m)

InitSerialize ==
    /\ ser_type \in SerializeTypes
    /\ ser_v \in ValuesOfType(ser_type, MaxTokens)
    /\ ser_s = NoValue
    /\ ser_result = NoValue
    /\ ser_pc = "start"
    /\ GeomIdle
    /\ MapIdle
    /\ DemoIdle
    /\ ReactiveIdle
    /\ HMapIdle
    /\ PassIdle

\* serialize(v)
Serialize ==
    /\ ser_pc = "start"
    /\ ser_s' = serialize(ser_type, ser_v)
    /\ ser_pc' = "serialized"
    /\ UNCHANGED <<ser_type, ser_v, ser_result, gvars, mvars, dvars, rvars, hvars, pvars>>

\* deserialize(serialize(v))
Deserialize ==
    /\ ser_pc = "serialized"
    /\ ser_result' = deserialize(ser_type, ser_s)
    /\ ser_pc' = "deserialized"
    /\ UNCHANGED <<ser_type, ser_v, ser_s, gvars, mvars, dvars, rvars, hvars, pvars>>

NextSerialize == Serialize \/ Deserialize

SpecSerialize == InitSerialize /\ [][NextSerialize]_vars

(***************************************************************************)
(* The properties of the coordinate transform (under SpecGeom).            *)
(***************************************************************************)
\* |v - p| <= 2^-40 in both coordinates, v a vector of Numbers, p of integers
Tolerance == Fin(1, <<1>>, -40)

FAbs(n) == IF n.k = "nan" THEN n ELSE [n EXCEPT !.s = 1]

Within(v, p) ==
    \A i \in 1..2 : FLe(FAbs(FAdd(v[i], FromInt(-p[i]))), Tolerance)

\* p lies in the closed triangle t: it is on no edge's outer side
Side(a, b, p) == (b[1] - a[1]) * (p[2] - a[2]) - (b[2] - a[2]) * (p[1] - a[1])

InClosedTriangle(t, p) ==
    LET d == {Side(t[1], t[2], p), Side(t[2], t[3], p), Side(t[3], t[1], p)}
    IN  ~((\E n \in d : n < 0) /\ (\E n \in d : n > 0))

\* C1: for a non-degenerate triangle T of either winding order and a point P,
\* barycentric_to_cartesian(T, cartesian_to_barycentric(T, P)) is P: exactly
\* when u and v are the exact quotients nu / denom and nv / denom, and within
\* 2^-40 of P in the Numbers the code computes.
C1_RoundTrip ==
    (gpc = "cart" /\ ~Collinear(triangle)) =>
        LET t == barycentric_terms(triangle, xy)
        IN  /\ barycentric_to_cartesian_exact(triangle, t.nu, t.nv, t.denom)
                  = <<t.denom * xy[1], t.denom * xy[2]>>
            /\ Within(back, xy)

\* C1 witness: a round trip through a clockwise triangle that comes back
\* beside P and not on it.
C1_Witness ==
    /\ gpc = "cart"
    /\ Cross(triangle) < 0
    /\ back # num2(xy)
    /\ Within(back, xy)

\* C2: the corners of a non-degenerate triangle <<A, B, C>> have the
\* barycentric coordinates (0, 0), (0, 1) and (1, 0).
C2_CornerFixedPoints ==
    (gpc = "bary" /\ ~Collinear(triangle)) =>
        /\ xy = triangle[1] => uv = <<Zero, Zero>>
        /\ xy = triangle[2] => uv = <<Zero, One>>
        /\ xy = triangle[3] => uv = <<One, Zero>>

\* C3: for a non-degenerate triangle of either winding order the test
\* u >= 0 and v >= 0 and u + v <= 1 holds exactly of the grid points of the
\* closed triangle, its edges and corners included.
C3_Containment ==
    (gpc = "bary" /\ ~Collinear(triangle)) =>
        (xy_in_triangle(uv) <=> InClosedTriangle(triangle, xy))

\* C4: cartesian_to_barycentric returns no pair for a degenerate triangle (it
\* fails), and no pair it returns holds Infinity or NaN.
C4_DegenerateFails ==
    gpc = "bary" => (~Collinear(triangle) /\ IsFin(uv[1]) /\ IsFin(uv[2]))

(***************************************************************************)
(* The properties of map_triangle (under SpecMap).                         *)
(***************************************************************************)
Pixels(img) == (0..(img.width - 1)) \X (0..(img.height - 1))

\* the four bytes of the pixel at offset o
PixelAt(data, o) == [k \in 0..3 |-> ToUint8(load(data, o + k))]

White == [k \in 0..3 |-> 255]

\* the loop's inside test for the destination pixel q
Inside(q) == xy_in_triangle(cartesian_to_barycentric(dst_triangle, q))

\* the source point of the destination pixel q
SourcePoint(q) ==
    barycentric_to_cartesian(src_triangle, cartesian_to_barycentric(dst_triangle, q))

FloorPoint(p) == <<Floor(p[1]), Floor(p[2])>>

\* the source point of the destination pixel q, floored
Sampled(q) == FloorPoint(SourcePoint(q))

Clamp(n, lo, hi) == IF n < lo THEN lo ELSE IF n > hi THEN hi ELSE n

DstPixel(q) == PixelAt(dst_image_data.data, PIXEL_WIDTH * (q[1] + q[2] * dst_image_data.width))

SrcPixel(q) == PixelAt(src_image_data.data, PIXEL_WIDTH * (q[1] + q[2] * src_image_data.width))

InPicture(q) ==
    /\ q[1] >= 0 /\ q[1] < src_image_data.width
    /\ q[2] >= 0 /\ q[2] < src_image_data.height

\* C5: a call with a collinear destination triangle writes no byte of the
\* destination buffer, at no point of the call.
C5_DegenerateDstUntouched ==
    (pc # "idle" /\ Collinear(dst_triangle)) => dst_image_data.data = dst_at_call

\* C6: a call with a collinear source triangle and a non-degenerate
\* destination triangle writes no byte of the destination buffer.
C6_DegenerateSrcUntouched ==
    (pc # "idle" /\ Collinear(src_triangle) /\ ~Collinear(dst_triangle)) =>
        dst_image_data.data = dst_at_call

\* C7: after a call with a non-degenerate destination triangle every
\* destination pixel that fails the inside test is opaque white, whatever it
\* held before.
C7_OutsideIsFill ==
    (pc = "done" /\ ~Collinear(dst_triangle)) =>
        \A q \in Pixels(dst_image_data) : ~Inside(q) => DstPixel(q) = White

\* C7 witness: a finished call with a non-degenerate destination triangle, a
\* pixel inside it and a pixel outside it that was not white before.
C7_Witness ==
    /\ pc = "done"
    /\ ~Collinear(dst_triangle)
    /\ \E q \in Pixels(dst_image_data) : Inside(q)
    /\ \E q \in Pixels(dst_image_data) :
          /\ ~Inside(q)
          /\ PixelAt(dst_at_call, PIXEL_WIDTH * (q[1] + q[2] * dst_image_data.width)) # White

\* C8: after a call every destination pixel that passes the inside test holds
\* the four bytes read at offset 4 * (floor(sx) + floor(sy) * src_width) of
\* the source data, which are the source pixel (floor(sx), floor(sy)) when
\* that lies in the picture: one source pixel, no blend of several.
C8_InsideIsSample ==
    pc = "done" =>
        \A q \in Pixels(dst_image_data) :
            \A c \in {cartesian_to_barycentric(dst_triangle, q)} :
                xy_in_triangle(c) =>
                    \A s \in {FloorPoint(barycentric_to_cartesian(src_triangle, c))} :
                        /\ DstPixel(q) =
                               PixelAt(src_image_data.data,
                                       PIXEL_WIDTH * (s[1] + s[2] * src_image_data.width))
                        /\ InPicture(s) => DstPixel(q) = SrcPixel(s)

\* C8 witness: a finished call in which some inside pixel was sampled from a
\* source point that is no grid point (the floor mattered), inside the picture.
C8_Witness ==
    /\ pc = "done"
    /\ \E q \in Pixels(dst_image_data) :
          /\ Inside(q)
          /\ InPicture(Sampled(q))
          /\ SourcePoint(q) # num2(Sampled(q))
          /\ DstPixel(q) = SrcPixel(Sampled(q))

\* C9: an inside pixel whose source point falls outside the picture gets the
\* source pixel nearest to it (x clamped to [0, width - 1], y to
\* [0, height - 1]).
C9_ClampedSample ==
    pc = "done" =>
        \A q \in Pixels(dst_image_data) :
            Inside(q) =>
                DstPixel(q) =
                    SrcPixel(<<Clamp(Sampled(q)[1], 0, src_image_data.width - 1),
                               Clamp(Sampled(q)[2], 0, src_image_data.height - 1)>>)

\* C10: map_triangle writes no byte of the source buffer (a buffer of its own,
\* not the destination's): the source image data is at every point of the call
\* what it was at the call.
C10_SourceReadOnly == pc # "idle" => src_image_data = Picture(SrcWidth, SrcHeight)

\* C10 witness: a finished call that read source pixels and changed the
\* destination buffer.
C10_Witness ==
    /\ pc = "done"
    /\ \E q \in Pixels(dst_image_data) : Inside(q) /\ InPicture(Sampled(q))
    /\ dst_image_data.data # dst_at_call
    /\ src_image_data = Picture(SrcWidth, SrcHeight)

\* C11: a second call of map_triangle with the same buffers and triangles
\* leaves every byte of the destination as the first call left it.
C11_Idempotent ==
    (pc = "done" /\ calls = 2) => dst_image_data.data = dst_after_first

\* C11 witness: a second call has returned, and the two calls copied source
\* pixels and filled pixels (the first call changed the destination).
C11_Witness ==
    /\ pc = "done"
    /\ calls = 2
    /\ dst_image_data.data = dst_after_first
    /\ dst_after_first # Blank(DstWidth, DstHeight, 128).data
    /\ \E q \in Pixels(dst_image_data) : Inside(q) /\ InPicture(Sampled(q))
    /\ \E q \in Pixels(dst_image_data) : ~Inside(q)

\* C12: with the source triangle as the destination triangle (not degenerate)
\* and buffers of one size, after the call every destination pixel that passes
\* the inside test holds the source pixel of its own (x, y), and every other
\* destination pixel is opaque white.
C12_IdentityMapping ==
    (pc = "done" /\ ~Collinear(dst_triangle)) =>
        \A q \in Pixels(dst_image_data) :
            DstPixel(q) = IF Inside(q) THEN SrcPixel(q) ELSE White

C14_RecomputeOnChange ==
    (event = "dragmove" /\ input_image_data # <<>>) =>
        canvas = map_triangle(input_image_data[1], input_triangle, canvas,
                              [i \in 1..3 |-> p2v(corners[i])])

\* C14 witness: a corner was dragged away, and the canvas shows the result
\* for the new triangle, which is not the result for the triangle it had at
\* construction.
C14_Witness ==
    /\ event = "dragmove"
    /\ input_image_data # <<>>
    /\ canvas = map_triangle(input_image_data[1], input_triangle, canvas,
                             [i \in 1..3 |-> p2v(corners[i])])
    /\ canvas # map_triangle(input_image_data[1], input_triangle, canvas, input_triangle)

(***************************************************************************)
(* reactive.js (under SpecReactive).                                       *)
(***************************************************************************)
\* the payloads of the occurrences on (or changes of) obj so far, in order
RECURSIVE PayloadsFrom(_, _)
PayloadsFrom(obj, i) ==
    IF i > Len(history) THEN <<>>
    ELSE (IF history[i][1] = obj THEN <<history[i][2]>> ELSE <<>>) \o PayloadsFrom(obj, i + 1)

Payloads(obj) == PayloadsFrom(obj, 1)

\* C15: S = stepperB(initialValue, E) holds initialValue until E first occurs
\* and then the payload of E's latest occurrence, and the observer of S has
\* been called once for each occurrence, with its payload, in order.
C15_Stepper ==
    "S" \in DOMAIN value =>
        /\ value["S"] = IF Payloads("E") = <<>> THEN history[1][2]
                        ELSE Payloads("E")[Len(Payloads("E"))]
        /\ notified["S"] = Payloads("E")

\* C15 witness: E has occurred twice with different payloads, neither the
\* initial value, and S holds the second.
C15_Witness ==
    /\ "S" \in DOMAIN value
    /\ Len(Payloads("E")) = 2
    /\ Payloads("E")[1] # Payloads("E")[2]
    /\ history[1][2] \notin {Payloads("E")[1], Payloads("E")[2]}
    /\ value["S"] = Payloads("E")[2]
    /\ notified["S"] = Payloads("E")

\* C16: M = mapB(f, B0) holds f(B0's value) in every state, the state before
\* B0's first change too.
C16_MapB == "M" \in DOMAIN value => value["M"] = fB[value["B0"]]

\* C17: M2 = mapB_2(f, B0) and M = mapB(f, B0) hold equal values and their
\* observers have been called with the same values in the same order: f of
\* each value B0 was changed to.
C17_MapB2 ==
    "M2" \in DOMAIN value =>
        /\ value["M2"] = value["M"]
        /\ notified["M2"] = notified["M"]
        /\ notified["M2"] = [i \in 1..Len(Payloads("B0")) |-> fB[Payloads("B0")[i]]]

\* C17 witness: B0 has changed twice, to values that f maps apart.
C17_Witness ==
    /\ "M2" \in DOMAIN value
    /\ Len(notified["M2"]) = 2
    /\ notified["M2"][1] # notified["M2"][2]
    /\ notified["M2"] = notified["M"]
    /\ value["M2"] = fB[value["B0"]]
    /\ value["M2"] = value["M"]

\* the behavior that SW = switcherB(B1, BE) is to follow: B1, or the one BE
\* delivered last
Selected == IF Payloads("BE") = <<>> THEN "B1" ELSE Payloads("BE")[Len(Payloads("BE"))]

\* C18: SW holds the value of the behavior selected, whatever the behaviors
\* switched away from have changed to since.
C18_Switcher ==
    "SW" \in DOMAIN value =>
        /\ currentB["SW"] = Selected
        /\ value["SW"] = value[Selected]

\* C18 witness: BE delivered B2, then B1 changed to a value that is not B2's,
\* and SW holds B2's value.
C18_Witness ==
    /\ "SW" \in DOMAIN value
    /\ Len(history) >= 4
    /\ history[Len(history) - 1] = <<"BE", "B2">>
    /\ history[Len(history)][1] = "B1"
    /\ value["B1"] # value["B2"]
    /\ value["SW"] = value["B2"]

(***************************************************************************)
(* HMap.scala (under SpecHMap).                                            *)
(***************************************************************************)
\* C19: the map that m.put(x, v) returned answers get(x) with Some(v), x
\* bound in m before or not; and HMap.empty answers every get with None.
C19_Hit ==
    /\ objects # NoValue => \A key \in Keys : get(objects, 1, key) = None
    /\ last # <<>> => get(objects, last[1].result, last[1].key) = Some(last[1].value)

\* C19 witness: the put bound a key anew that was bound to another value.
C19_Witness ==
    /\ last # <<>>
    /\ map_get(last[1].was, last[1].key) # None
    /\ map_get(last[1].was, last[1].key) # Some(last[1].value)
    /\ get(objects, last[1].result, last[1].key) = Some(last[1].value)

\* C20: the map that m.put(y, v) returned answers get(x) as m did before
\* for every key x that is not y, and m is after the put the map it was.
C20_Miss ==
    last # <<>> =>
        /\ \A k \in Keys :
              ~equals(k, last[1].key) =>
                  get(objects, last[1].result, k) = map_get(last[1].was, k)
        /\ \A k \in Keys : get(objects, last[1].m, k) = map_get(last[1].was, k)

\* C20 witness: a put on a map with another key bound and the put's key not
\* bound: both maps answer for the other key, and only the new one for the key.
C20_Witness ==
    /\ last # <<>>
    /\ \E k \in Keys :
          /\ ~equals(k, last[1].key)
          /\ map_get(last[1].was, k) # None
          /\ get(objects, last[1].result, k) = map_get(last[1].was, k)
    /\ get(objects, last[1].m, last[1].key) = None
    /\ get(objects, last[1].result, last[1].key) # None

\* C21: a key with the value of the key put and another phantom type is not
\* equal to it, and the map that the put returned answers such a key as the
\* receiver did before.
C21_TypeMiss ==
    last # <<>> =>
        \A k \in Keys :
            (k.v = last[1].key.v /\ k.m # last[1].key.m) =>
                /\ ~equals(k, last[1].key)
                /\ get(objects, last[1].result, k) = map_get(last[1].was, k)

(***************************************************************************)
(* The Serialize type class (under SpecSerialize).                         *)
(***************************************************************************)
\* C22: deserialize(serialize(v)) is Some(v), for every v of a type with an
\* instance: String, Int, pairs and nested pairs of them, and Version.
C22_RoundTrip == ser_pc = "deserialized" => ser_result = Some(ser_v)

\* C22 witness: a nested pair with the texts "&comma;" and "," in it came back.
C22_Witness ==
    /\ ser_pc = "deserialized"
    /\ ser_type = <<"Tuple2", <<"Tuple2", <<"String">>, <<"String">>>>, <<"String">>>>
    /\ ser_v[1][1] = comma_entity
    /\ ser_v[1][2] = comma
    /\ ser_v[2] = amp_entity
    /\ ser_result = Some(ser_v)

(***************************************************************************)
(* Passes of map_triangle's body by workers (under SpecWorkers).           *)
(***************************************************************************)
\* C23: when all workers are done, every destination pixel has been written
\* once (so by one worker) and the destination buffer is that of the
\* sequential pass.
C23_WorkersAsSequential ==
    (\A w \in 1..NumWorkers : workers[w].pc = "done") =>
        /\ \A q \in Pixels(dst_image_data) : written[q] = 1
        /\ dst_image_data.data = sequential_pass

(***************************************************************************)
(* Passes in any order (under SpecOrder).                                  *)
(***************************************************************************)
\* C24: a pass that has visited every destination pixel once, in whatever
\* order, leaves the destination buffer that the code's column-major scan
\* leaves, and has written each pixel once.
C24_OrderIrrelevant ==
    todo = {} =>
        /\ \A q \in Pixels(dst_image_data) : written[q] = 1
        /\ dst_image_data.data = sequential_pass

\* C24 witness: a complete pass over a triangle with pixels inside and
\* outside that was not the column-major scan: the pixel it sampled last is
\* not the last pixel inside the triangle of that scan.
C24_Witness ==
    /\ todo = {}
    /\ \E q \in Pixels(dst_image_data) : ~Inside(q)
    /\ LET inside == {q \in Pixels(dst_image_data) : Inside(q)}
           final == CHOOSE q \in inside :
                        \A r \in inside : r[1] < q[1] \/ (r[1] = q[1] /\ r[2] <= q[2])
       IN  /\ inside # {}
           /\ src_pixel_start # sample_start(SourcePoint(final), src_image_data.width)
    /\ dst_image_data.data = sequential_pass

(***************************************************************************)
(* Calls one after another (under SpecCalls).                              *)
(***************************************************************************)
\* C25: the destination buffer after a call is what map_triangle makes of
\* the call's source buffer and triangles on a buffer of the destination's
\* size that holds nothing: what the destination held before and what an
\* earlier call with other arguments left behind have no part in it.
C25_NoHiddenState ==
    pc = "done" =>
        dst_image_data.data =
            map_triangle(src_image_data, src_triangle,
                         Blank(dst_image_data.width, dst_image_data.height, 0),
                         dst_triangle).data

\* C25 witness: a second call has returned whose destination held the
\* picture of a first call, that call having sampled the source (and so
\* left src_xy and src_pixel_start behind), and has made another picture.
C25_Witness ==
    /\ pc = "done"
    /\ calls = 2
    /\ dst_at_call = dst_after_first
    /\ \E i \in 1..Len(dst_after_first) : dst_after_first[i] \notin {0, 128, 255}
    /\ dst_after_first # Blank(dst_image_data.width, dst_image_data.height, 0).data
    /\ dst_after_first # dst_image_data.data
    /\ \E q \in Pixels(dst_image_data) : Inside(q)

(***************************************************************************)
(* Termination (under SpecTermFair).                                       *)
(***************************************************************************)
\* C26: every call comes to its end, and is then for good at width * height
\* iterations of the loops' body: with a degenerate destination triangle,
\* and with an empty destination buffer, too.
C26_Terminates ==
    <>[](/\ pc = "done"
         /\ iterations = dst_image_data.width * dst_image_data.height)

\* C26 witness: a call with a degenerate destination triangle on a buffer
\* that has pixels is at its end.
C26_Witness ==
    /\ pc = "done"
    /\ Collinear(dst_triangle)
    /\ dst_image_data.width * dst_image_data.height > 1
    /\ iterations = dst_image_data.width * dst_image_data.height

(***************************************************************************)
(* C27: as long as the input image data is undefined the output canvas is  *)
(* left as it was made, whatever corners were dragged; from the load of    *)
(* the image on, with or without a corner drag, the canvas shows the       *)
(* current image data mapped to the current corners.                       *)
(***************************************************************************)
C27_ImageGuard ==
    /\ input_image_data = <<>> => canvas = Blank(DemoSide, DemoSide, 0)
    /\ input_image_data # <<>> =>
          canvas = map_triangle(input_image_data[1], input_triangle,
                                Blank(DemoSide, DemoSide, 0),
                                [i \in 1..3 |-> p2v(corners[i])])

\* the image has just loaded while the corners are where they were made, and
\* the canvas is drawn
C27_Witness ==
    /\ event = "onload"
    /\ corners = [i \in 1..3 |-> v2p(input_triangle[i])]
    /\ input_image_data # <<>>
    /\ canvas # Blank(DemoSide, DemoSide, 0)

(***************************************************************************)
(* C28: when the three corners of the source triangle are pixels of the    *)
(* source picture (0 <= sx < width, 0 <= sy < height), every destination   *)
(* pixel that passes the inside test samples a pixel of the picture, and   *)
(* the four offsets read are offsets of the source array.                  *)
(***************************************************************************)
C28_ReadsInBounds ==
    (\A i \in 1..3 : InPicture(src_triangle[i])) =>
        \A q \in Pixels(dst_image_data) :
            (/\ \/ q[1] < x
                \/ q[1] = x /\ q[2] < y
             /\ Inside(q)) =>
                /\ InPicture(Sampled(q))
                /\ sample_start(SourcePoint(q), src_image_data.width) >= 0
                /\ sample_start(SourcePoint(q), src_image_data.width) + 3
                      < Len(src_image_data.data)

(***************************************************************************)
(* C29: the same permutation applied to the corner order of the source     *)
(* triangle and of the destination triangle leaves the result of           *)
(* map_triangle as it is: every destination pixel has the same             *)
(* inside/outside classification and the same sampled source pixel as      *)
(* with the original order.                                                *)
(***************************************************************************)
CornerOrders == {pm \in [1..3 -> 1..3] : \A i, j \in 1..3 : pm[i] = pm[j] => i = j}

relabel(t, pm) == [i \in 1..3 |-> t[pm[i]]]

C29_RelabelingInvariant ==
    pc = "done" =>
        \A pm \in CornerOrders : \A q \in Pixels(dst_image_data) :
            \E c \in {cartesian_to_barycentric(relabel(dst_triangle, pm), q)} :
                /\ xy_in_triangle(c) = Inside(q)
                /\ Inside(q) =>
                      FloorPoint(barycentric_to_cartesian(relabel(src_triangle, pm), c))
                          = Sampled(q)

(***************************************************************************)
(* C30: _change stores the new value before it notifies, so a snapshot of  *)
(* a behavior emits the value the behavior holds when the sampling stream  *)
(* occurs.  decisWhenWrappedB, whose sampling stream is made of decisB's   *)
(* own changes, has been given exactly the new values of the changes that  *)
(* passed the filter, in their order, never the value from before the      *)
(* change; decisAtTickB has been given, at each tick, the value decisB     *)
(* held then.                                                              *)
(***************************************************************************)
RECURSIVE WrappedChanges(_)
WrappedChanges(hist) ==
    IF hist = <<>> THEN <<>>
    ELSE LET e == hist[Len(hist)]
             before == WrappedChanges(SubSeq(hist, 1, Len(hist) - 1))
         IN  IF e[1] = "decisB" /\ wraps(e[2]) THEN Append(before, e[2]) ELSE before

\* the value of decisB after the events of hist
RECURSIVE DecisAfter(_)
DecisAfter(hist) ==
    LET e == hist[Len(hist)]
    IN  IF e[1] \in {"decisB", "new decisB"} THEN e[2]
        ELSE DecisAfter(SubSeq(hist, 1, Len(hist) - 1))

RECURSIVE TickValues(_)
TickValues(hist) ==
    IF hist = <<>> THEN <<>>
    ELSE LET e == hist[Len(hist)]
             before == TickValues(SubSeq(hist, 1, Len(hist) - 1))
         IN  IF e[1] = "tickE" THEN Append(before, DecisAfter(hist)) ELSE before

C30_SnapshotIsNewValue ==
    "decisWhenWrappedB" \in DOMAIN value =>
        /\ notified["decisWhenWrappedB"] = WrappedChanges(history)
        /\ notified["decisAtTickB"] = TickValues(history)
        /\ value["decisB"] = DecisAfter(history)

\* decisB has just changed from a value to another one that passes the
\* filter, and decisWhenWrappedB was given the new one
C30_Witness ==
    /\ "decisWhenWrappedB" \in DOMAIN value
    /\ Len(history) >= 3
    /\ history[Len(history)][1] = "decisB"
    /\ wraps(history[Len(history)][2])
    /\ history[Len(history) - 1][1] = "decisB"
    /\ history[Len(history) - 1][2] # history[Len(history)][2]
    /\ notified["decisWhenWrappedB"] # <<>>
    /\ notified["decisWhenWrappedB"][Len(notified["decisWhenWrappedB"])]
          = history[Len(history)][2]
    /\ value["decisWhenWrappedB"] = history[Len(history)][2]

====
